---- MODULE Spec2Model ----
(***************************************************************************)
(* Model of the travel-planner scrapers: the Go Tokyo event scraper, the   *)
(* Tabelog restaurant scraper and the Scrapy item pipelines.               *)
(*                                                                         *)
(* Texts are tuples of characters, one string per character ("yen" and     *)
(* "fwyen" stand for the two yen signs).  One program runs per behaviour;  *)
(* prog names it.                                                          *)
(***************************************************************************)
EXTENDS Integers, Sequences, FiniteSets, TLC

VARIABLES
  prog,             \* the program of this behaviour
  pc,               \* its position
  price_str,        \* parse_price: the argument
  price_result,     \* parse_price: the value returned
  rating_str,       \* parse_rating: the argument
  rating_result,    \* parse_rating: the outcome
  location_arg,     \* clean_neighborhood: the argument location_text
  neighborhood_result,  \* clean_neighborhood: the value returned
  raw,              \* parse_event_card: the card as extracted from the page
  poi,              \* parse_event_card: the value returned
  computed_tags,    \* parse_event_card (scraper and spider): category_tags
                    \* as the tag loop and the keyword rules leave it
  url_idx,          \* scrape_all_events: start URLs processed so far
  event,            \* scrape_all_events: the event the filter loop took last
  all_events,       \* scrape_all_events: all_events (events is the same list)
  seen_urls,        \* scrape_all_events: seen_urls
  additional_urls,  \* scrape_all_events: pagination URLs still to scrape
  list_item,        \* scrape_category: a list item and its detail page
  restaurant,       \* scrape_category: the record appended for list_item
  cat_items,        \* run: cat_items after the shuffle
  cat_idx,          \* run: categories scraped so far
  page,             \* scrape_category: page
  items,            \* scrape_category: items
  detail_fetches,   \* scrape_category: calls of parse_detail_page so far
  card_outcome,     \* scrape_category: how the last iteration over list_items
                    \* ended ("none" before the first)
  all_pois,         \* run: all_pois
  page_status,      \* both scrapers: outcome of the last listing page request
  any_page_ok,      \* both scrapers: some listing page was fetched and parsed
  element,          \* parse: an element and the response for its link
  item,             \* Scrapy: the item handed to the pipelines last
  normalized,       \* POINormalizationPipeline.process_item: the item returned
  ordered,          \* FieldOrderPipeline.process_item: the item returned
  processed,        \* Scrapy: items handed to the pipelines so far
  exported          \* JSONExportPipeline.items

priceVars == <<price_str, price_result>>

ratingVars == <<rating_str, rating_result>>

cardVars == <<raw, poi>>

goVars == <<url_idx, event, all_events, seen_urls, additional_urls>>

itemVars == <<list_item, restaurant>>

runVars ==
  <<cat_items, cat_idx, page, items, detail_fetches, card_outcome, all_pois>>

fetchVars == <<page_status, any_page_ok>>

tagVars == <<computed_tags>>

placeVars == <<location_arg, neighborhood_result>>

scrapyVars == <<element, item, normalized, ordered, processed, exported>>

vars ==
  <<prog, pc, priceVars, ratingVars, cardVars, goVars, itemVars, runVars,
    fetchVars, tagVars, placeVars, scrapyVars>>

\* The variables of the other programs, per program.
notPrice ==
  <<placeVars, tagVars, cardVars, goVars, itemVars, runVars, scrapyVars,
    ratingVars, fetchVars>>

notCard ==
  <<placeVars, priceVars, goVars, itemVars, runVars, scrapyVars, ratingVars,
    fetchVars>>

notGo ==
  <<placeVars, tagVars, priceVars, cardVars, itemVars, runVars, scrapyVars,
    ratingVars>>

notItem ==
  <<placeVars, tagVars, priceVars, cardVars, goVars, runVars, scrapyVars,
    ratingVars, fetchVars>>

notRun ==
  <<placeVars, tagVars, priceVars, cardVars, goVars, itemVars, scrapyVars,
    ratingVars>>

notScrapy ==
  <<placeVars, priceVars, cardVars, goVars, itemVars, runVars, ratingVars,
    fetchVars>>

notPlace ==
  <<priceVars, ratingVars, cardVars, goVars, itemVars, runVars, fetchVars,
    tagVars, scrapyVars>>

notRating ==
  <<placeVars, tagVars, priceVars, cardVars, goVars, itemVars, runVars,
    scrapyVars, fetchVars>>

\* Python's None: NoneText where a text is expected, None where a number or a
\* record is expected (a present value v is then Some(v)).
NoneText == <<"None">>

None == <<>>

Some(v) == <<v>>

\* The variables of the programs that do not run in a behaviour keep these
\* values.
IdlePrice == price_str = NoneText /\ price_result = None

IdleRating == rating_str = NoneText /\ rating_result = None

IdlePlace == location_arg = NoneText /\ neighborhood_result = None

\* No card went through the tag steps yet.
IdleTags == computed_tags = None

IdleCard == raw = None /\ poi = None /\ IdleTags

IdleGoTokyo ==
  /\ url_idx = 0
  /\ event = None
  /\ all_events = <<>>
  /\ seen_urls = {}
  /\ additional_urls = 0

IdleItem == list_item = None /\ restaurant = None

IdleRun ==
  /\ cat_items = <<>>
  /\ cat_idx = 0
  /\ page = 0
  /\ items = <<>>
  /\ detail_fetches = 0
  /\ card_outcome = "none"
  /\ all_pois = <<>>

\* No listing page was requested yet.
IdleFetch == page_status = "pending" /\ any_page_ok = FALSE

IdleScrapy ==
  /\ IdleTags
  /\ element = None
  /\ item = None
  /\ normalized = None
  /\ ordered = None
  /\ processed = 0
  /\ exported = <<>>

IdleButPrice ==
  IdlePlace /\ IdleCard /\ IdleGoTokyo /\ IdleItem /\ IdleRun /\ IdleScrapy
  /\ IdleRating /\ IdleFetch

IdleButCard ==
  IdlePlace /\ IdlePrice /\ IdleGoTokyo /\ IdleItem /\ IdleRun /\ IdleScrapy
  /\ IdleRating /\ IdleFetch

IdleButGo ==
  IdlePlace /\ IdlePrice /\ IdleCard /\ IdleItem /\ IdleRun /\ IdleScrapy /\
  IdleRating

IdleButItem ==
  IdlePlace /\ IdlePrice /\ IdleCard /\ IdleGoTokyo /\ IdleRun /\ IdleScrapy
  /\ IdleRating /\ IdleFetch

IdleButRun ==
  IdlePlace /\ IdlePrice /\ IdleCard /\ IdleGoTokyo /\ IdleItem /\
  IdleScrapy /\ IdleRating

IdleButScrapy ==
  IdlePlace /\ IdlePrice /\ IdleCard /\ IdleGoTokyo /\ IdleItem /\ IdleRun
  /\ IdleRating /\ IdleFetch

IdleButPlace ==
  IdlePrice /\ IdleRating /\ IdleCard /\ IdleGoTokyo /\ IdleItem /\ IdleRun
  /\ IdleScrapy /\ IdleFetch

IdleButRating ==
  IdlePlace /\ IdlePrice /\ IdleCard /\ IdleGoTokyo /\ IdleItem /\ IdleRun
  /\ IdleScrapy /\ IdleFetch

\* ------------------------------------------------------------------ bounds

\* Number of vocabulary pieces a price text is built from.
MaxPieces == 3

\* Longest digit string of one matched price substring.
MaxDigits == 8

\* Pagination pages discovered on the events page (the code takes at most 5).
MaxLinks == 2

\* Longest list of events a run collects.
MaxEvents == 3

\* Categories of a run of the Tabelog scraper.
MaxCategories == 2

\* max_per_category, the limit of scrape_category.
MaxPerCategory == 2

\* List pages of a category.
MaxPage == 2

\* Items handed to the pipelines.
MaxItems == 2

\* --------------------------------------------------------- text helpers

Max(a, b) == IF a > b THEN a ELSE b

Min(a, b) == IF a < b THEN a ELSE b

RECURSIVE Flatten(_)
Flatten(ss) == IF ss = <<>> THEN <<>> ELSE Head(ss) \o Flatten(Tail(ss))

SeqsUpTo(S, n) == UNION {[1..k -> S] : k \in 0..n}

Range(s) == {s[i] : i \in DOMAIN s}

Rep(c, n) == [i \in 1..n |-> c]

Whitespace == {" ", "\n", "\t"}

\* str.strip()
RECURSIVE strip(_)
strip(s) ==
  IF s = <<>> THEN s
  ELSE IF Head(s) \in Whitespace THEN strip(Tail(s))
  ELSE IF s[Len(s)] \in Whitespace THEN strip(SubSeq(s, 1, Len(s) - 1))
  ELSE s

\* s[:n]
prefix(s, n) == SubSeq(s, 1, Min(n, Len(s)))

\* s.rfind(c): the 0-based index of the last c in s, or -1.
rfind(s, c) ==
  IF \E i \in DOMAIN s : s[i] = c
  THEN (CHOOSE i \in DOMAIN s : s[i] = c /\ \A j \in DOMAIN s : s[j] = c => j <= i) - 1
  ELSE -1

\* needle in hay
contains(hay, needle) ==
  \E i \in 0..(Len(hay) - Len(needle)) : SubSeq(hay, i + 1, i + Len(needle)) = needle

\* ------------------------------------------------------------------- URLs

\* A URL is the tuple of its scheme-and-host part and its path components; a
\* root-relative href is the tuple of its path components alone.
GoTokyoHost == "https://www.gotokyo.org"

TabelogHost == "https://tabelog.com"

Hosts == {GoTokyoHost, TabelogHost}

is_absolute(href) == href # <<>> /\ href[1] \in Hosts

\* urllib.parse.urljoin(base, href) for a base without path.
urljoin(base, href) == IF is_absolute(href) THEN href ELSE <<base>> \o href

\* url.endswith(suffix) for a suffix '/a/b' given as its components <<a, b>>.
endswith(url, suffix) ==
  /\ Len(url) > Len(suffix)
  /\ SubSeq(url, Len(url) - Len(suffix) + 1, Len(url)) = suffix

UrlSakura == <<GoTokyoHost, "en", "event", "sakura.html">>
UrlTower == <<GoTokyoHost, "en", "spot", "tower.html">>
UrlSpotIndex == <<GoTokyoHost, "en", "spot", "index.html">>
UrlEventIndex == <<GoTokyoHost, "en", "event", "index.html">>
UrlFromTokyo ==
  <<GoTokyoHost, "en", "tourists", "spot", "suburbs", "fromtokyo", "index.html">>
UrlBase == <<GoTokyoHost>>
UrlSushiDai == <<TabelogHost, "en", "tokyo", "A1301", "A130101", "13000001">>
UrlMenya == <<TabelogHost, "en", "tokyo", "A1303", "A130301", "13000002">>

\* hashlib.md5(url.encode('utf-8')).hexdigest()[:12] of the URLs above.
hexdigest12(url) ==
  CASE url = UrlSakura -> "81cb09216ee9"
    [] url = UrlTower -> "61149ec7f547"
    [] url = UrlSpotIndex -> "004a0724212f"
    [] url = UrlEventIndex -> "85d63438ade9"
    [] url = UrlFromTokyo -> "711d999d0336"
    [] url = UrlBase -> "efd45dc9a9c7"
    [] url = UrlSushiDai -> "e58ae47c8f84"
    [] url = UrlMenya -> "da0e16aa565a"

\* ------------------------------------------------- GoTokyoEventScraper

generate_poi_id(url) == hexdigest12(url)

\* Coordinates are hundredths of a degree.
NoCoordinates == [lat |-> None, lon |-> None]

\* A detail page as extract_coordinates reads it: raises (the fetch or the
\* parse raised), map_links (per Google Maps link, in page order, the pair the
\* coordinate pattern captures in its href, or None) and scripts (the same
\* per script tag; None also for a script without text).
first_match(ms) ==
  LET hits == SelectSeq(ms, LAMBDA m : m # None)
  IN  IF hits = <<>> THEN None ELSE hits[1]

\* An extraction that takes only the latitude from a map link.
OneSidedCoordinates(detail) ==
  IF detail.raises THEN NoCoordinates
  ELSE LET link == first_match(detail.map_links)
           script == first_match(detail.scripts)
       IN  IF link # None
           THEN [lat |-> Some(link[1].lat), lon |-> None]
           ELSE IF script # None
           THEN [lat |-> Some(script[1].lat), lon |-> Some(script[1].lng)]
           ELSE NoCoordinates

extract_coordinates(detail) ==
  IF detail.raises THEN NoCoordinates
  ELSE LET link == first_match(detail.map_links)
           script == first_match(detail.scripts)
       IN  IF link # None
           THEN [lat |-> Some(link[1].lat), lon |-> Some(link[1].lon)]
           ELSE IF script # None
           THEN [lat |-> Some(script[1].lat), lon |-> Some(script[1].lng)]
           ELSE NoCoordinates

\* A summary that is cut at the last period wherever it lies.
CutAtAnyPeriod(description, event_date) ==
  LET desc0 == strip(description)
      short == prefix(desc0, 200)
      last_period == rfind(short, ".")
      desc1 == IF Len(desc0) > 200
               THEN IF last_period > -1
                    THEN prefix(short, last_period + 1)
                    ELSE short \o <<".", ".", ".">>
               ELSE desc0
  IN  IF event_date # <<>> /\ ~contains(desc1, event_date)
      THEN strip(desc1 \o <<" ">> \o event_date)
      ELSE desc1

create_short_description(description, event_date) ==
  LET desc0 == strip(description)
      short == prefix(desc0, 200)
      last_period == rfind(short, ".")
      desc1 == IF Len(desc0) > 200
               THEN IF last_period > 100
                    THEN prefix(short, last_period + 1)
                    ELSE short \o <<".", ".", ".">>
               ELSE desc0
  IN  IF event_date # <<>> /\ ~contains(desc1, event_date)
      THEN strip(desc1 \o <<" ">> \o event_date)
      ELSE desc1

\* ------------------------------------------- keyword rules of event cards

TextTokyo == <<"T", "o", "k", "y", "o">>
TextFestival == <<"f", "e", "s", "t", "i", "v", "a", "l">>
TagFestival == <<"F", "e", "s", "t", "i", "v", "a", "l">>
TagExhibition == <<"E", "x", "h", "i", "b", "i", "t", "i", "o", "n">>
TagTraditional == <<"T", "r", "a", "d", "i", "t", "i", "o", "n", "a", "l">>
TagFood == <<"F", "o", "o", "d">>
TagMusic == <<"M", "u", "s", "i", "c">>
TagSeasonal == <<"S", "e", "a", "s", "o", "n", "a", "l">>
TagFamilyFriendly == <<"F", "a", "m", "i", "l", "y", " ", "F", "r", "i", "e", "n", "d", "l", "y">>
TagNightlife == <<"N", "i", "g", "h", "t", "l", "i", "f", "e">>
TagFreeEntry == <<"F", "r", "e", "e", " ", "E", "n", "t", "r", "y">>
TagEvent == <<"E", "v", "e", "n", "t">>

\* str.lower() and str.upper() of one character.
lower_char(c) ==
  CASE c = "A" -> "a" [] c = "B" -> "b" [] c = "C" -> "c" [] c = "D" -> "d"
    [] c = "E" -> "e" [] c = "F" -> "f" [] c = "G" -> "g" [] c = "H" -> "h"
    [] c = "I" -> "i" [] c = "J" -> "j" [] c = "K" -> "k" [] c = "L" -> "l"
    [] c = "M" -> "m" [] c = "N" -> "n" [] c = "O" -> "o" [] c = "P" -> "p"
    [] c = "Q" -> "q" [] c = "R" -> "r" [] c = "S" -> "s" [] c = "T" -> "t"
    [] c = "U" -> "u" [] c = "V" -> "v" [] c = "W" -> "w" [] c = "X" -> "x"
    [] c = "Y" -> "y" [] c = "Z" -> "z"
    [] OTHER -> c

upper_char(c) ==
  CASE c = "a" -> "A" [] c = "b" -> "B" [] c = "c" -> "C" [] c = "d" -> "D"
    [] c = "e" -> "E" [] c = "f" -> "F" [] c = "g" -> "G" [] c = "h" -> "H"
    [] c = "i" -> "I" [] c = "j" -> "J" [] c = "k" -> "K" [] c = "l" -> "L"
    [] c = "m" -> "M" [] c = "n" -> "N" [] c = "o" -> "O" [] c = "p" -> "P"
    [] c = "q" -> "Q" [] c = "r" -> "R" [] c = "s" -> "S" [] c = "t" -> "T"
    [] c = "u" -> "U" [] c = "v" -> "V" [] c = "w" -> "W" [] c = "x" -> "X"
    [] c = "y" -> "Y" [] c = "z" -> "Z"
    [] OTHER -> c

lower(s) == [i \in DOMAIN s |-> lower_char(s[i])]

is_letter(c) == lower_char(c) # c \/ upper_char(c) # c

\* str.title(): a letter that follows no letter is uppercased, every other
\* letter lowercased.
title(s) ==
  [i \in DOMAIN s |->
     IF i = 1 \/ ~is_letter(s[Max(i - 1, 1)]) THEN upper_char(s[i])
     ELSE lower_char(s[i])]

\* any(word in text for word in words)
any_in(words, text) == \E i \in DOMAIN words : contains(text, words[i])

\* The rules of a keyword table whose words occur in text, in table order.
matching(rules, text) == SelectSeq(rules, LAMBDA r : any_in(r.words, text))

\* The keyword groups of the category inference and the tag each appends.
\* The non-ASCII keywords of the time groups are the one-character tokens
\* "asa", "gogo" and "yoru".
category_rules ==
  <<[words |-> << <<"f", "e", "s", "t", "i", "v", "a", "l">>, <<"m", "a", "t",
     "s", "u", "r", "i">> >>, tag |-> TagFestival],
    [words |-> << <<"m", "u", "s", "e", "u", "m">>, <<"e", "x", "h", "i", "b",
     "i", "t", "i", "o", "n">>, <<"a", "r", "t">> >>, tag |-> TagExhibition],
    [words |-> << <<"t", "e", "m", "p", "l", "e">>, <<"s", "h", "r", "i", "n",
     "e">>, <<"t", "r", "a", "d", "i", "t", "i", "o", "n", "a", "l">> >>, tag
     |-> TagTraditional],
    [words |-> << <<"f", "o", "o", "d">>, <<"m", "a", "r", "k", "e", "t">>,
     <<"c", "u", "l", "i", "n", "a", "r", "y">> >>, tag |-> TagFood],
    [words |-> << <<"m", "u", "s", "i", "c">>, <<"c", "o", "n", "c", "e", "r",
     "t">>, <<"p", "e", "r", "f", "o", "r", "m", "a", "n", "c", "e">> >>, tag
     |-> TagMusic],
    [words |-> << <<"s", "a", "k", "u", "r", "a">>, <<"c", "h", "e", "r", "r",
     "y">>, <<"f", "l", "o", "w", "e", "r">> >>, tag |-> TagSeasonal] >>

interest_rules ==
  <<[words |-> << <<"f", "a", "m", "i", "l", "y">> >>, tag |->
     TagFamilyFriendly],
    [words |-> << <<"n", "i", "g", "h", "t">>, <<"e", "v", "e", "n", "i", "n",
     "g">>, <<"i", "l", "l", "u", "m", "i", "n", "a", "t", "i", "o", "n">> >>,
     tag |-> TagNightlife],
    [words |-> << <<"f", "r", "e", "e">> >>, tag |-> TagFreeEntry] >>

time_rules ==
  <<[words |-> << <<"m", "o", "r", "n", "i", "n", "g">>, <<"a", "m">>,
     <<"asa">> >>, time |-> "morning"],
    [words |-> << <<"a", "f", "t", "e", "r", "n", "o", "o", "n">>, <<"p",
     "m">>, <<"gogo">> >>, time |-> "afternoon"],
    [words |-> << <<"e", "v", "e", "n", "i", "n", "g">>, <<"n", "i", "g", "h",
     "t">>, <<"yoru">>, <<"i", "l", "l", "u", "m", "i", "n", "a", "t", "i",
     "o", "n">> >>, time |-> "evening"] >>

duration_rules ==
  <<[words |-> << <<"f", "e", "s", "t", "i", "v", "a", "l">>, <<"m", "a", "t",
     "s", "u", "r", "i">> >>, minutes |-> 180],
    [words |-> << <<"e", "x", "h", "i", "b", "i", "t", "i", "o", "n">>, <<"m",
     "u", "s", "e", "u", "m">> >>, minutes |-> 90],
    [words |-> << <<"c", "o", "n", "c", "e", "r", "t">>, <<"p", "e", "r", "f",
     "o", "r", "m", "a", "n", "c", "e">>, <<"s", "h", "o", "w">> >>, minutes
     |-> 120],
    [words |-> << <<"m", "a", "r", "k", "e", "t">>, <<"f", "a", "i", "r">> >>,
     minutes |-> 60],
    [words |-> << <<"c", "e", "r", "e", "m", "o", "n", "y">>, <<"r", "i", "t",
     "u", "a", "l">> >>, minutes |-> 45] >>

neighborhood_map ==
  <<[words |-> << <<"s", "h", "i", "b", "u", "y", "a">> >>, value |-> <<"S",
     "h", "i", "b", "u", "y", "a">>],
    [words |-> << <<"s", "h", "i", "n", "j", "u", "k", "u">> >>, value |->
     <<"S", "h", "i", "n", "j", "u", "k", "u">>],
    [words |-> << <<"h", "a", "r", "a", "j", "u", "k", "u">> >>, value |->
     <<"H", "a", "r", "a", "j", "u", "k", "u">>],
    [words |-> << <<"a", "s", "a", "k", "u", "s", "a">> >>, value |-> <<"A",
     "s", "a", "k", "u", "s", "a">>],
    [words |-> << <<"g", "i", "n", "z", "a">> >>, value |-> <<"G", "i", "n",
     "z", "a">>],
    [words |-> << <<"r", "o", "p", "p", "o", "n", "g", "i">> >>, value |->
     <<"R", "o", "p", "p", "o", "n", "g", "i">>],
    [words |-> << <<"a", "k", "i", "h", "a", "b", "a", "r", "a">> >>, value
     |-> <<"A", "k", "i", "h", "a", "b", "a", "r", "a">>],
    [words |-> << <<"u", "e", "n", "o">> >>, value |-> <<"U", "e", "n",
     "o">>],
    [words |-> << <<"t", "o", "k", "y", "o", " ", "s", "t", "a", "t", "i",
     "o", "n">> >>, value |-> <<"T", "o", "k", "y", "o", " ", "S", "t", "a",
     "t", "i", "o", "n">>],
    [words |-> << <<"i", "k", "e", "b", "u", "k", "u", "r", "o">> >>, value
     |-> <<"I", "k", "e", "b", "u", "k", "u", "r", "o">>],
    [words |-> << <<"o", "d", "a", "i", "b", "a">> >>, value |-> <<"O", "d",
     "a", "i", "b", "a">>],
    [words |-> << <<"t", "s", "u", "k", "i", "j", "i">> >>, value |-> <<"T",
     "s", "u", "k", "i", "j", "i">>] >>

\* f"{name} {description}".lower()
text_content(name, description) == lower(name \o <<" ">> \o description)

\* A tag loop that appends every stripped text.
UnfilteredTags(spans) == [i \in DOMAIN spans |-> strip(spans[i])]

\* The loop over tag_elements: the stripped texts of the span elements that
\* are non-empty and shorter than 50 characters.
explicit_tags(spans) ==
  SelectSeq([i \in DOMAIN spans |-> strip(spans[i])],
            LAMBDA t : t # <<>> /\ Len(t) < 50)

\* The chain of independent ifs of the category inference.
infer_category_tags(text) ==
  LET hits == matching(category_rules, text)
  IN  [i \in DOMAIN hits |-> hits[i].tag]

\* category_tags of the scraper's parse_event_card after the tag loop and
\* the keyword rules: the explicit tags if there are any, else the tags the
\* keyword rules infer from name and description.
card_category_tags(card) ==
  LET name == strip(card.name)
      description == IF card.description = NoneText THEN name
                     ELSE strip(card.description)
      explicit == explicit_tags(card.spans)
  IN  IF explicit # <<>> THEN explicit
      ELSE infer_category_tags(text_content(name, description))

\* The situational tags appended to the copy of category_tags.
situational_tags(text) ==
  LET hits == matching(interest_rules, text)
  IN  [i \in DOMAIN hits |-> hits[i].tag]

\* A chain over time_text in which the last matching group wins.
LastMatchWins(time_text) ==
  LET hits == matching(time_rules, time_text)
  IN  IF hits = <<>> THEN None ELSE Some(hits[Len(hits)].time)

\* The if/elif chain over time_text.
best_time(time_text) ==
  LET hits == matching(time_rules, time_text)
  IN  IF hits = <<>> THEN None ELSE Some(hits[1].time)

estimate_duration(name, description) ==
  LET hits == matching(duration_rules, text_content(name, description))
  IN  IF hits = <<>> THEN 90 ELSE hits[1].minutes

\* A lookup in which the key declared last wins.
LastDeclaredWins(location_text) ==
  IF location_text = <<>> THEN TextTokyo
  ELSE LET hits == matching(neighborhood_map, lower(location_text))
       IN  IF hits # <<>> THEN hits[Len(hits)].value
           ELSE title(strip(location_text))

clean_neighborhood(location_text) ==
  IF location_text = <<>> THEN TextTokyo
  ELSE LET hits == matching(neighborhood_map, lower(location_text))
       IN  IF hits # <<>> THEN hits[1].value
           ELSE title(strip(location_text))

\* event_element.find(['.location', '.venue', '.area']): a list argument of
\* find is a list of tag names, and no tag of a parsed document is named
\* '.location', '.venue' or '.area', so the lookup finds no element whatever
\* the card holds.
location_elem(card) == None

\* A card as the element lookups of parse_event_card find it: href (NoneText
\* without a link element), name, description (NoneText without a p
\* element), event_date ('' without a time element), location (the text of
\* the element of class location, venue or area; NoneText without one),
\* spans (the texts of the span elements) and the detail page behind the
\* link.  list(set(tags)) has no defined order: the tag fields of the record
\* are sets.
parse_event_card(card) ==
  IF card.href = NoneText THEN None
  ELSE LET event_url == urljoin(GoTokyoHost, card.href)
           name == strip(card.name)
           description == IF card.description = NoneText THEN name
                          ELSE strip(card.description)
           event_date == strip(card.event_date)
           neighborhood == IF location_elem(card) # None
                           THEN strip(card.location) ELSE TextTokyo
           category_tags == card_category_tags(card)
           interest_tags ==
             category_tags \o situational_tags(text_content(name, description))
           time_text == lower(name \o <<" ">> \o description \o <<" ">>
                              \o event_date)
       IN  Some([id |-> generate_poi_id(event_url),
                 name |-> name,
                 type |-> "event_venue",
                 category_tags |-> IF category_tags # <<>>
                                   THEN Range(category_tags) ELSE {TagEvent},
                 neighborhood |-> clean_neighborhood(neighborhood),
                 price_range |-> None,
                 halal |-> "unknown",
                 cuisine |-> None,
                 interest_tags |-> IF interest_tags # <<>>
                                   THEN Range(interest_tags) ELSE {TagEvent},
                 coordinates |-> extract_coordinates(card.detail),
                 typical_duration_minutes |->
                   estimate_duration(name, description),
                 best_time_of_day |-> best_time(time_text),
                 short_description |->
                   create_short_description(description, event_date),
                 source_url |-> event_url])

NameSakura == <<"S", "a", "k", "u", "r", "a", " ", "F", "e", "s", "t", "i", "v", "a", "l">>
NameBlossom == <<"C", "h", "e", "r", "r", "y", " ", "B", "l", "o", "s", "s", "o", "m", "s">>
NameTower == <<"T", "o", "k", "y", "o", " ", "T", "o", "w", "e", "r">>
NameBeyond == <<"B", "e", "y", "o", "n", "d", " ", "T", "o", "k", "y", "o">>
NameMore == <<"M", "o", "r", "e", " ", "d", "e", "t", "a", "i", "l", "s", " ", "h", "e", "r", "e">>
NameExpo == <<"E", "x", "p", "o">>
NameAb == <<"A", "b">>

DescShort == <<"A", "n", "n", "u", "a", "l", " ", "f", "a", "i", "r", ".">>
\* 250 characters without a period.
DescNoPeriod == Rep("a", 250)
\* 250 characters, the only period at index 120.
DescLatePeriod == Rep("a", 120) \o <<".">> \o Rep("b", 129)
\* 250 characters, the only period at index 50.
DescEarlyPeriod == Rep("a", 50) \o <<".">> \o Rep("b", 199)
\* 200 characters.
DescAtLimit == Rep("a", 200)
\* 201 characters, the only period at index 100, and at index 101.
DescPeriodAt100 == Rep("a", 100) \o <<".">> \o Rep("b", 100)
DescPeriodAt101 == Rep("a", 101) \o <<".">> \o Rep("b", 99)
\* 250 characters, periods at indexes 110, 150 and 210.
DescPeriods ==
  Rep("a", 110) \o <<".">> \o Rep("b", 39) \o <<".">> \o Rep("c", 59)
  \o <<".">> \o Rep("d", 39)

DateApril == <<"A", "p", "r", "i", "l", " ", "5">>
DateFair == <<"f", "a", "i", "r">>
NameJazzShow == <<"J", "a", "z", "z", " ", "S", "h", "o", "w">>
NameFamilyDay == <<"F", "a", "m", "i", "l", "y", " ", "D", "a", "y">>
NameNightConcert == <<"N", "i", "g", "h", "t", " ", "C", "o", "n", "c", "e", "r", "t">>
NameRitual == <<"T", "e", "a", " ", "R", "i", "t", "u", "a", "l", " ", "F", "a", "i", "r">>
DescBlossom == <<"A", " ", "b", "e", "a", "u", "t", "i", "f", "u", "l", " ", "c", "h", "e", "r", "r", "y", " ", "b", "l", "o", "s", "s", "o", "m", " ", "f", "e", "s", "t", "i", "v", "a", "l">>
DescFree == <<"F", "r", "e", "e", " ", "e", "n", "t", "r", "y", " ", "f", "o", "r", " ", "a", "l", "l">>
DateIllumination == <<"A", "p", "r", "i", "l", ",", " ", "e", "v", "e", "n", "i", "n", "g", " ", "i", "l", "l", "u", "m", "i", "n", "a", "t", "i", "o", "n">>
DateMorning == <<"M", "o", "r", "n", "i", "n", "g", " ", "t", "o", " ", "n", "i", "g", "h", "t">>
DateTenPm == <<"1", "0", " ", "p", "m">>
TextShinjuku == <<"S", "h", "i", "n", "j", "u", "k", "u">>
LocationKabukicho == <<"k", "a", "b", "u", "k", "i", "c", "h", "o", ",", " ", "S", "H", "I", "N", "J", "U", "K", "U">>
LocationNakano == <<"n", "a", "k", "a", "n", "o", " ", "3", "r", "d", "-", "s", "t", "r", "e", "e", "t">>
LocationBlank == <<" ", " ">>
SpanComma == <<",">>
SpanFoodDrink == <<"F", "o", "o", "d", ",", " ", "D", "r", "i", "n", "k">>

PairTokyo == [lat |-> 3568, lon |-> 13976]
PairZero == [lat |-> 0, lon |-> 0]
ScriptTokyo == [lat |-> 3568, lng |-> 13976]

PageRaises == [raises |-> TRUE, map_links |-> <<>>, scripts |-> <<>>]
PageEmpty == [raises |-> FALSE, map_links |-> <<>>, scripts |-> <<None>>]
PageLink == [raises |-> FALSE, map_links |-> <<None, Some(PairTokyo)>>,
             scripts |-> <<>>]
PageZero == [raises |-> FALSE, map_links |-> <<Some(PairZero)>>,
             scripts |-> <<Some(ScriptTokyo)>>]
PageScript == [raises |-> FALSE, map_links |-> <<None>>,
               scripts |-> <<None, Some(ScriptTokyo)>>]

DetailPages == {PageRaises, PageEmpty, PageLink, PageZero, PageScript}

Hrefs ==
  {NoneText, <<>>, <<"en", "event", "sakura.html">>, UrlTower,
   <<"en", "spot", "index.html">>}

\* The span texts of a card: none, two tags, a lone comma, a blank and an
\* overlong text, and one text holding a comma.
CardSpans ==
  {<<>>, <<TagFood, TagFestival>>, <<SpanComma>>,
   <<LocationBlank, Rep("x", 50)>>, <<SpanFoodDrink>>}

\* Cards that vary the link, the description and the detail page, and cards
\* that vary the texts the keyword rules read.
RawCards ==
  [href : Hrefs,
   name : {NameSakura, NameBeyond, NameExpo, NameAb},
   description : {NoneText, DescShort, DescNoPeriod, DescLatePeriod,
                  DescEarlyPeriod, DescAtLimit},
   event_date : {<<>>, DateApril, DateFair},
   location : {NoneText},
   spans : {<<>>},
   detail : DetailPages]
  \cup
  [href : {<<"en", "event", "sakura.html">>},
   name : {NameExpo},
   description : {DescPeriodAt100, DescPeriodAt101, DescPeriods},
   event_date : {<<>>, DateApril},
   location : {NoneText},
   spans : {<<>>},
   detail : {PageEmpty}]
  \cup
  [href : {<<"en", "event", "sakura.html">>},
   name : {NameSakura, NameJazzShow, NameFamilyDay, NameNightConcert,
           NameRitual},
   description : {NoneText, DescBlossom, DescFree},
   event_date : {<<>>, DateIllumination, DateMorning, DateTenPm},
   location : {NoneText, TextShinjuku, LocationBlank},
   spans : CardSpans,
   detail : {PageEmpty}]

InitCard ==
  /\ prog = "parse_event_card"
  /\ pc = "call"
  /\ raw \in {Some(c) : c \in RawCards}
  /\ poi = None
  /\ IdleButCard

ParseEventCard ==
  /\ prog = "parse_event_card"
  /\ pc = "call"
  /\ poi' = parse_event_card(raw[1])
  /\ computed_tags' = IF poi' = None THEN None
                      ELSE Some(card_category_tags(raw[1]))
  /\ pc' = "returned"
  /\ UNCHANGED <<prog, raw, notCard>>

\* ------------------------------- GoTokyoEventScraper.clean_neighborhood

\* Location texts: every key of the table in some case, a place the table
\* does not know and the city's name.
LocationWords ==
  {<<"S", "h", "i", "b", "u", "y", "a">>,
   <<"s", "h", "i", "n", "j", "u", "k", "u">>,
   <<"H", "A", "R", "A", "J", "U", "K", "U">>,
   <<"A", "s", "a", "k", "u", "s", "a">>,
   <<"g", "i", "n", "z", "a">>,
   <<"R", "o", "p", "p", "o", "n", "g", "i">>,
   <<"a", "k", "i", "h", "a", "b", "a", "r", "a">>,
   <<"U", "e", "n", "o">>,
   <<"T", "o", "k", "y", "o", " ", "S", "t", "a", "t", "i", "o", "n">>,
   <<"i", "k", "e", "b", "u", "k", "u", "r", "o">>,
   <<"O", "d", "a", "i", "b", "a">>,
   <<"T", "S", "U", "K", "I", "J", "I">>,
   <<"n", "a", "k", "a", "n", "o", " ", "3", "r", "d", "-", "s", "t", "r",
     "e", "e", "t">>,
   <<"T", "o", "k", "y", "o">>}

\* The arguments of clean_neighborhood: the empty text, blanks, a word, a
\* padded word, and two words in either order.
LocationTexts ==
  {<<>>, LocationBlank, LocationKabukicho, LocationNakano}
  \cup LocationWords
  \cup {<<" ">> \o w \o <<" ">> : w \in LocationWords}
  \cup {w[1] \o <<",", " ">> \o w[2] : w \in LocationWords \X LocationWords}

InitPlace ==
  /\ prog = "clean_neighborhood"
  /\ pc = "call"
  /\ location_arg \in LocationTexts
  /\ neighborhood_result = None
  /\ IdleButPlace

CleanNeighborhood ==
  /\ prog = "clean_neighborhood"
  /\ pc = "call"
  /\ neighborhood_result' = Some(clean_neighborhood(location_arg))
  /\ pc' = "returned"
  /\ UNCHANGED <<prog, location_arg, notPlace>>

\* ------------------------------- GoTokyoEventScraper.scrape_all_events

\* len(urls_to_scrape)
NumStartUrls == 5

\* pagination_links[:5]
PaginationLimit == 5

\* len(event['name']) > 5
MinNameLen == 5

NameDenylist == {NameMore, NameBeyond}

\* The suffixes '/spot/index.html', '/event/index.html' and
\* '/tourists/spot/suburbs/fromtokyo/index.html'.
GenericSuffixes ==
  {<<"spot", "index.html">>, <<"event", "index.html">>,
   <<"tourists", "spot", "suburbs", "fromtokyo", "index.html">>}

\* The condition of the filter loop.
accepts(e, seen) ==
  /\ e.source_url \notin seen
  /\ Len(e.name) > MinNameLen
  /\ e.name \notin NameDenylist
  /\ ~\E suffix \in GenericSuffixes : endswith(e.source_url, suffix)

\* A filter loop in which the record seen last replaces the stored one.
LastSeenWins(e, events, seen) ==
  IF e.source_url \in seen /\ accepts(e, {})
  THEN [all_events |->
          [i \in DOMAIN events |->
             IF events[i].source_url = e.source_url THEN e ELSE events[i]],
        seen_urls |-> seen]
  ELSE IF accepts(e, seen)
  THEN [all_events |-> Append(events, e), seen_urls |-> seen \cup {e.source_url}]
  ELSE [all_events |-> events, seen_urls |-> seen]

\* A filter loop that only notes the URL of the event it meets first.
SkipsFirst(e, events, seen) ==
  IF seen = {}
  THEN [all_events |-> events, seen_urls |-> {e.source_url}]
  ELSE IF accepts(e, seen)
  THEN [all_events |-> Append(events, e), seen_urls |-> seen \cup {e.source_url}]
  ELSE [all_events |-> events, seen_urls |-> seen]

\* The body of the filter loop for one event of page_events: all_events and
\* seen_urls after it.
filter_event(e, events, seen) ==
  IF accepts(e, seen)
  THEN [all_events |-> Append(events, e), seen_urls |-> seen \cup {e.source_url}]
  ELSE [all_events |-> events, seen_urls |-> seen]

\* The filter loop over a whole batch of events.
RECURSIVE filter_loop(_, _, _)
filter_loop(page_events, events, seen) ==
  IF page_events = <<>> THEN [all_events |-> events, seen_urls |-> seen]
  ELSE LET r == filter_event(Head(page_events), events, seen)
       IN  filter_loop(Tail(page_events), r.all_events, r.seen_urls)

\* The cards the listing pages of a run show: two links to the Sakura page
\* under different names, the Tower page under a placeholder and under its
\* name, a landing page, and a link with a two-letter text.
RunCard(href, name, detail) ==
  [href |-> href, name |-> name, description |-> DescShort,
   event_date |-> <<>>, location |-> NoneText, spans |-> <<>>,
   detail |-> detail]

RunRawCards ==
  {RunCard(<<"en", "event", "sakura.html">>, NameSakura, PageLink),
   RunCard(<<"en", "event", "sakura.html">>, NameBlossom, PageEmpty),
   RunCard(<<"en", "event", "sakura.html">>, NameAb, PageEmpty),
   RunCard(UrlTower, NameBeyond, PageScript),
   RunCard(UrlTower, NameTower, PageScript),
   RunCard(<<"en", "spot", "index.html">>, NameTower, PageRaises)}

RunEvents == {parse_event_card(c)[1] : c \in RunRawCards}

InitGoTokyo ==
  /\ prog = "scrape_all_events"
  /\ pc = "start_urls"
  /\ IdleGoTokyo
  /\ IdleFetch
  /\ IdleButGo

\* The call of scrape_events_page for the next URL, up to its return: the
\* page is fetched and its cards are parsed, or an exception is caught on
\* the way.
ScrapeEventsPage ==
  /\ prog = "scrape_all_events"
  /\ pc \in {"start_urls", "additional"}
  /\ page_status = "pending"
  /\ \E ok \in BOOLEAN :
       /\ page_status' = IF ok THEN "ok" ELSE "failed"
       /\ any_page_ok' = (any_page_ok \/ ok)
  /\ UNCHANGED <<prog, pc, goVars, notGo>>

\* scrape_events_page returns the parsed cards of a page ([] when the page
\* has none or the fetch raised); the filter loop then takes them one by one.
\* One iteration of the filter loop, for the next event of page_events.
FilterEvent ==
  /\ prog = "scrape_all_events"
  /\ pc = "start_urls"
  /\ page_status = "ok"
  /\ \E e \in RunEvents :
       /\ event' = Some(e)
       /\ all_events' = filter_event(e, all_events, seen_urls).all_events
       /\ seen_urls' = filter_event(e, all_events, seen_urls).seen_urls
  /\ UNCHANGED <<prog, pc, url_idx, additional_urls, fetchVars, notGo>>

\* page_events is exhausted: the loop over urls_to_scrape moves on.
NextStartUrl ==
  /\ prog = "scrape_all_events"
  /\ pc = "start_urls"
  /\ page_status # "pending"
  /\ url_idx' = url_idx + 1
  /\ pc' = IF url_idx' = NumStartUrls THEN "find_pagination" ELSE "start_urls"
  /\ page_status' = "pending"
  /\ UNCHANGED <<prog, event, all_events, seen_urls, additional_urls,
                 any_page_ok, notGo>>

\* The search for pagination links on the events page: it raises (the run
\* returns what it has), or yields up to five further URLs.
FindPagination ==
  /\ prog = "scrape_all_events"
  /\ pc = "find_pagination"
  /\ \E n \in 0..Min(PaginationLimit, MaxLinks) :
       /\ additional_urls' = n
       /\ pc' = IF n = 0 THEN "done" ELSE "additional"
  /\ UNCHANGED <<prog, url_idx, event, all_events, seen_urls, fetchVars,
                 notGo>>

\* events.extend(additional_events), for the next event of an additional
\* page.
ExtendEvent ==
  /\ prog = "scrape_all_events"
  /\ pc = "additional"
  /\ page_status = "ok"
  /\ Len(all_events) < MaxEvents
  /\ \E e \in RunEvents : all_events' = Append(all_events, e)
  /\ UNCHANGED <<prog, pc, url_idx, event, seen_urls, additional_urls,
                 fetchVars, notGo>>

\* The additional page is exhausted: the loop over additional_urls moves on,
\* and the run returns events after the last one.
NextAdditionalUrl ==
  /\ prog = "scrape_all_events"
  /\ pc = "additional"
  /\ page_status # "pending"
  /\ additional_urls' = additional_urls - 1
  /\ pc' = IF additional_urls' = 0 THEN "done" ELSE "additional"
  /\ page_status' = "pending"
  /\ UNCHANGED <<prog, url_idx, event, all_events, seen_urls, any_page_ok,
                 notGo>>

\* ------------------------------------------- TabelogScraper.parse_price

Digits == {"0", "1", "2", "3", "4", "5", "6", "7", "8", "9"}

DigitVal ==
  [d \in Digits |->
     CASE d = "0" -> 0 [] d = "1" -> 1 [] d = "2" -> 2 [] d = "3" -> 3
       [] d = "4" -> 4 [] d = "5" -> 5 [] d = "6" -> 6 [] d = "7" -> 7
       [] d = "8" -> 8 [] d = "9" -> 9]

\* The character class of the pattern [yen fwyen , 0-9]+.
PriceClass == {"yen", "fwyen", ","} \cup Digits

\* re.findall of the pattern: the maximal runs of class characters, in order.
RECURSIVE findall_price(_, _, _)
findall_price(s, i, cur) ==
  LET flush == IF cur = <<>> THEN <<>> ELSE <<cur>>
  IN  IF i > Len(s) THEN flush
      ELSE IF s[i] \in PriceClass
           THEN findall_price(s, i + 1, Append(cur, s[i]))
           ELSE flush \o findall_price(s, i + 1, <<>>)

\* p.replace(yen, '').replace(fwyen, '').replace(',', '')
strip_currency(p) == SelectSeq(p, LAMBDA c : c \in Digits)

\* int() of a string of decimal digits; int('') raises ValueError.
RECURSIVE int_of(_)
int_of(d) ==
  IF d = <<>> THEN 0
  ELSE int_of(SubSeq(d, 1, Len(d) - 1)) * 10 + DigitVal[d[Len(d)]]

int_raises(d) == d = <<>>

\* The loop over prices: Some(max_val) after the loop, or None when int()
\* raised ValueError on one of the substrings.
RECURSIVE max_price_loop(_, _)
max_price_loop(prices, max_val) ==
  IF prices = <<>> THEN Some(max_val)
  ELSE LET d == strip_currency(Head(prices))
       IN  IF int_raises(d) THEN None
           ELSE max_price_loop(Tail(prices), Max(int_of(d), max_val))

\* The tier thresholds applied to max_val.
price_tier(max_val) ==
  IF max_val = 0 THEN None
  ELSE IF max_val < 1000 THEN Some(1)
  ELSE IF max_val < 4000 THEN Some(2)
  ELSE IF max_val < 10000 THEN Some(3)
  ELSE Some(4)

parse_price(s) ==
  IF s = NoneText \/ s = <<>> THEN None
  ELSE LET prices == findall_price(s, 1, <<>>)
       IN  IF prices = <<>> THEN None
           ELSE LET m == max_price_loop(prices, 0)
                IN  IF m = None THEN None ELSE price_tier(m[1])

\* Price texts: concatenations of pieces seen on listing and detail pages.
P999 == <<"9", "9", "9">>
P1000 == <<"1", ",", "0", "0", "0">>
P3999 == <<"3", ",", "9", "9", "9">>
P4000 == <<"4", ",", "0", "0", "0">>
P9999 == <<"9", ",", "9", "9", "9">>
P10000 == <<"1", "0", ",", "0", "0", "0">>

PricePieces ==
  {P999, P1000, P3999, P4000, P9999, P10000,
   <<"0">>, <<"yen">>, <<"fwyen">>, <<",">>, <<" ">>, <<"~">>, <<"x">>}

PriceTexts ==
  {t \in {Flatten(ps) : ps \in SeqsUpTo(PricePieces, MaxPieces)} :
     \A i \in DOMAIN findall_price(t, 1, <<>>) :
        Len(strip_currency(findall_price(t, 1, <<>>)[i])) <= MaxDigits}

InitPrice ==
  /\ prog = "parse_price"
  /\ pc = "call"
  /\ price_str \in PriceTexts \cup {NoneText}
  /\ price_result = None
  /\ IdleButPrice

ParsePrice ==
  /\ prog = "parse_price"
  /\ pc = "call"
  /\ price_result' = parse_price(price_str)
  /\ pc' = "returned"
  /\ UNCHANGED <<prog, price_str, notPrice>>

\* ------------------------------------------ TabelogScraper.parse_rating

\* A float is its sign, the digits of its integer part without leading
\* zeros and the digits of its fraction without trailing zeros; 0.0 and -0.0
\* are one value.
RECURSIVE drop_leading_zeros(_)
drop_leading_zeros(ds) ==
  IF ds # <<>> /\ Head(ds) = "0" THEN drop_leading_zeros(Tail(ds)) ELSE ds

RECURSIVE drop_trailing_zeros(_)
drop_trailing_zeros(ds) ==
  IF ds # <<>> /\ ds[Len(ds)] = "0"
  THEN drop_trailing_zeros(SubSeq(ds, 1, Len(ds) - 1)) ELSE ds

Float(negative, int_digits, frac_digits) ==
  LET whole == drop_leading_zeros(int_digits)
      frac == drop_trailing_zeros(frac_digits)
  IN  [negative |-> negative /\ (whole # <<>> \/ frac # <<>>),
       whole |-> whole, frac |-> frac]

Zero == Float(FALSE, <<>>, <<>>)

\* The parts of a text as float() reads it: the text without surrounding
\* whitespace and without its sign, split at the first point.
unsigned(s) ==
  LET t == strip(s)
  IN  IF t # <<>> /\ Head(t) \in {"+", "-"} THEN Tail(t) ELSE t

point(s) ==
  LET u == unsigned(s)
      points == {i \in DOMAIN u : u[i] = "."}
  IN  IF points = {} THEN Len(u) + 1
      ELSE CHOOSE i \in points : \A k \in points : i <= k

\* float(s) raises ValueError unless s is a decimal number: digits with at
\* most one point and at least one digit, after an optional sign.  (The
\* texts of the model hold no exponent, underscore, 'inf' or 'nan'.)
float_raises(s) ==
  LET u == unsigned(s)
      whole == SubSeq(u, 1, point(s) - 1)
      frac == SubSeq(u, point(s) + 1, Len(u))
  IN  \/ \E i \in DOMAIN whole : whole[i] \notin Digits
      \/ \E i \in DOMAIN frac : frac[i] \notin Digits
      \/ whole = <<>> /\ frac = <<>>

float_of(s) ==
  LET u == unsigned(s)
      t == strip(s)
  IN  Float(t # <<>> /\ Head(t) = "-",
            SubSeq(u, 1, point(s) - 1), SubSeq(u, point(s) + 1, Len(u)))

\* The end of the run of digits that starts at i.
RECURSIVE digits_end(_, _)
digits_end(s, i) ==
  IF i < Len(s) /\ s[i + 1] \in Digits THEN digits_end(s, i + 1) ELSE i

\* re.search(r'\d+\.\d+', s): the leftmost match, None without one.
search_decimal(s) ==
  LET starts == {i \in DOMAIN s :
                   /\ s[i] \in Digits
                   /\ digits_end(s, i) + 2 <= Len(s)
                   /\ s[digits_end(s, i) + 1] = "."
                   /\ s[digits_end(s, i) + 2] \in Digits}
  IN  IF starts = {} THEN None
      ELSE LET i == CHOOSE i \in starts : \A k \in starts : i <= k
           IN  Some(SubSeq(s, i, digits_end(s, digits_end(s, i) + 2)))

\* A parse_rating without its except clauses.
RatingUnguarded(s) ==
  IF s = NoneText \/ float_raises(s)
  THEN [raised |-> TRUE, value |-> Zero]
  ELSE [raised |-> FALSE, value |-> float_of(s)]

\* parse_rating: float(None) raises TypeError and float of another text
\* ValueError; both lead to the search in str(rating_str), and to 0.0 when
\* it finds nothing.
parse_rating(s) ==
  IF s # NoneText /\ ~float_raises(s)
  THEN [raised |-> FALSE, value |-> float_of(s)]
  ELSE LET match == search_decimal(s)
       IN  IF match # None
           THEN [raised |-> FALSE, value |-> float_of(match[1])]
           ELSE [raised |-> FALSE, value |-> Zero]

\* Rating texts: concatenations of pieces seen in rating elements.
RatingPieces ==
  {<<"3">>, <<".">>, <<"5", "2">>, <<"0">>, <<" ">>, <<"-">>,
   <<"s", "t", "a", "r", "s">>}

RatingTexts == {Flatten(ps) : ps \in SeqsUpTo(RatingPieces, MaxPieces)}

InitRating ==
  /\ prog = "parse_rating"
  /\ pc = "call"
  /\ rating_str \in RatingTexts \cup {NoneText}
  /\ rating_result = None
  /\ IdleButRating

ParseRating ==
  /\ prog = "parse_rating"
  /\ pc = "call"
  /\ rating_result' = Some(parse_rating(rating_str))
  /\ pc' = "returned"
  /\ UNCHANGED <<prog, rating_str, notRating>>

\* ------------------------------------------------------- TabelogScraper

\* TabelogScraper.generate_poi_id
tabelog_poi_id(url) == hexdigest12(url)

\* sep.join(parts)
RECURSIVE join(_, _)
join(sep, parts) ==
  IF parts = <<>> THEN <<>>
  ELSE IF Len(parts) = 1 THEN parts[1]
  ELSE parts[1] \o sep \o join(sep, Tail(parts))

\* " ".join(text.split()): the words of text with one blank between them,
\* that is, text without the whitespace at its ends and with every other
\* run of whitespace replaced by one blank.
join_words(text) ==
  LET s == strip(text)
      kept == SelectSeq([i \in 1..Len(s) |-> i],
                        LAMBDA i : s[i] \notin Whitespace
                                   \/ s[i - 1] \notin Whitespace)
  IN  [k \in 1..Len(kept) |->
         IF s[kept[k]] \in Whitespace THEN " " ELSE s[kept[k]]]

clean_text(text) ==
  IF text = NoneText \/ text = <<>> THEN <<>> ELSE join_words(text)

\* text.split('/')[0]
before_slash(s) ==
  LET slashes == {i \in DOMAIN s : s[i] = "/"}
  IN  IF slashes = {} THEN s
      ELSE SubSeq(s, 1, (CHOOSE i \in slashes : \A k \in slashes : i <= k) - 1)


\* A script tag as get_lat_lon reads it: the number after the first
\* latitude key and the number after the first longitude key, each None when
\* the script holds no such key (or no text).
lat_lon_of_scripts(scripts) ==
  LET hits == SelectSeq(scripts, LAMBDA sc : sc.lat # None /\ sc.lon # None)
  IN  IF hits = <<>> THEN None ELSE Some(hits[1])

\* soup.map_link is the pair after q= in the href of the map link, None
\* without such a link or such a pair.
get_lat_lon(soup) ==
  LET script == lat_lon_of_scripts(soup.scripts)
  IN  IF script # None
      THEN [lat |-> script[1].lat, lon |-> script[1].lon]
      ELSE IF soup.map_link # None
      THEN [lat |-> Some(soup.map_link[1].lat), lon |-> Some(soup.map_link[1].lon)]
      ELSE NoCoordinates

TextAwards == <<"A", "w", "a", "r", "d", "s", ":", " ">>
TextRemarks == <<"R", "e", "m", "a", "r", "k", "s", ":", " ">>
TextPrivateRooms == <<"P", "r", "i", "v", "a", "t", "e", " ", "r", "o", "o", "m", "s", " ", "a", "v", "a", "i", "l", "a", "b", "l", "e", ".">>
TextSpecializes == <<"S", "p", "e", "c", "i", "a", "l", "i", "z", "e", "s", " ", "i", "n", " ">>
TextAvailable == <<"a", "v", "a", "i", "l", "a", "b", "l", "e">>
TextRestaurantIn == <<" ", "r", "e", "s", "t", "a", "u", "r", "a", "n", "t", " ", "i", "n", " ">>
Ellipsis == <<".", ".", ".">>

\* The constructed description of parse_detail_page.
constructed_description(details) ==
  LET awards == IF Len(details.awards) > 150
                THEN prefix(details.awards, 147) \o Ellipsis
                ELSE details.awards
      remarks == IF Len(details.remarks) > 100
                 THEN prefix(details.remarks, 100) \o Ellipsis
                 ELSE details.remarks
      desc_parts ==
        (IF details.awards # <<>> THEN <<TextAwards \o awards>> ELSE <<>>)
        \o (IF details.remarks # <<>> THEN <<TextRemarks \o remarks>> ELSE <<>>)
        \o (IF details.private_rooms # <<>>
               /\ contains(lower(details.private_rooms), TextAvailable)
            THEN <<TextPrivateRooms>> ELSE <<>>)
        \o (IF details.categories # <<>>
            THEN <<TextSpecializes \o details.categories \o <<".">> >>
            ELSE <<>>)
  IN  join(<<".", " ">>, desc_parts)

\* A detail page as parse_detail_page reads it: ok (status 200 and no
\* exception), the cells of the information table by header ('' for a row
\* that is absent), scripts and map_link for get_lat_lon, and pr_comment
\* (None without the element, else its title and body, '' when absent).
\* The value is None for the empty dict, else the dict with '' for a key
\* that is not set and None for coordinates that are not set.
parse_detail_page(resp) ==
  IF ~resp.ok THEN None
  ELSE LET info == [price_text |-> clean_text(resp.price_text),
                    awards |-> clean_text(resp.awards),
                    categories |-> clean_text(resp.categories),
                    remarks |-> clean_text(resp.remarks),
                    private_rooms |-> clean_text(resp.private_rooms)]
           coords == get_lat_lon(resp)
           title_text == IF resp.pr_comment = None THEN <<>>
                         ELSE clean_text(resp.pr_comment[1].title)
           body_text == IF resp.pr_comment = None THEN <<>>
                        ELSE clean_text(resp.pr_comment[1].body)
           pr_desc == IF title_text # <<>> /\ body_text # <<>>
                      THEN title_text \o <<" ">> \o body_text
                      ELSE IF title_text # <<>> THEN title_text
                      ELSE body_text
       IN  Some([price_text |-> info.price_text,
                 awards |-> info.awards,
                 categories |-> info.categories,
                 remarks |-> info.remarks,
                 private_rooms |-> info.private_rooms,
                 coordinates |->
                   IF coords.lat # None /\ coords.lat # Some(0)
                   THEN Some(coords) ELSE None,
                 generated_description |->
                   IF pr_desc # <<>> THEN pr_desc
                   ELSE constructed_description(info)])

\* A list item as parse_restaurant_card reads it: href and name of the name
\* link (href NoneText without the link), price_text, area_text and
\* catch_text (NoneText without the element).
parse_restaurant_card(li, category) ==
  IF li.href = NoneText THEN None
  ELSE LET detail_url == IF is_absolute(li.href) THEN li.href
                         ELSE urljoin(TabelogHost, li.href)
           price_range == IF li.price_text = NoneText THEN None
                          ELSE parse_price(li.price_text)
           neighborhood == IF li.area_text = NoneText THEN TextTokyo
                           ELSE clean_text(before_slash(li.area_text))
           short_desc == IF li.catch_text = NoneText
                         THEN category \o TextRestaurantIn \o neighborhood
                         ELSE clean_text(li.catch_text)
       IN  Some([id |-> tabelog_poi_id(detail_url),
                 name |-> clean_text(li.name),
                 type |-> "restaurant",
                 category_tags |-> <<category>>,
                 neighborhood |-> neighborhood,
                 price_range |-> price_range,
                 coordinates |-> NoCoordinates,
                 short_description |-> short_desc,
                 source_url |-> detail_url])

\* An update that takes price, description and coordinates of the detail
\* page whatever they are.
OverwriteAll(p, details) ==
  IF details = None THEN p
  ELSE LET d == details[1]
       IN  [p EXCEPT
              !.price_range = IF d.price_text # <<>>
                              THEN parse_price(d.price_text) ELSE None,
              !.short_description = d.generated_description,
              !.coordinates = IF d.coordinates # None THEN d.coordinates[1]
                              ELSE NoCoordinates]

\* The update of a card's record with the details of its page.
update_poi(p, details) ==
  IF details = None THEN p
  ELSE LET d == details[1]
           new_price == IF d.price_text # <<>> THEN parse_price(d.price_text)
                        ELSE None
       IN  [p EXCEPT
              !.price_range = IF new_price # None THEN new_price ELSE @,
              !.short_description =
                 IF d.generated_description # <<>> THEN d.generated_description
                 ELSE IF d.remarks # <<>> THEN d.remarks
                 ELSE @,
              !.coordinates = IF d.coordinates # None THEN d.coordinates[1]
                              ELSE @]

\* The record scrape_category appends for a list item and its detail page,
\* None when the card cannot be parsed.
scrape_item(it, category) ==
  LET p == parse_restaurant_card(it.item, category)
  IN  IF p = None THEN None
      ELSE Some(update_poi(p[1], parse_detail_page(it.detail)))

NameSushiDai == <<"S", "u", "s", "h", "i", " ", "D", "a", "i">>
NameMenya == <<"M", "e", "n", "y", "a", " ", " ", "M", "u", "s", "a", "s", "h", "i">>
CatSushi == <<"S", "u", "s", "h", "i">>
CatRamen == <<"R", "a", "m", "e", "n">>
CatUdon == <<"U", "d", "o", "n">>
AreaTsukiji == <<"T", "s", "u", "k", "i", "j", "i", " ", "/", " ", "S", "u", "s", "h", "i">>
AreaNone == <<" ", "/", " ", "R", "a", "m", "e", "n">>
CatchFresh == <<"F", "r", "e", "s", "h", " ", "f", "i", "s", "h", " ", "d", "a", "i", "l", "y">>
RoomsAvailable == <<"A", "v", "a", "i", "l", "a", "b", "l", "e">>
RoomsNone == <<"N", "o", "n", "e">>
PricePlain == <<"yen">> \o P4000 \o <<"~">> \o <<"yen">> \o P9999
PriceStray == <<"D", ",", " ", "yen">> \o P1000

ScriptBoth == [lat |-> Some(3566), lon |-> Some(13977)]
ScriptLatOnly == [lat |-> Some(3566), lon |-> None]
ScriptZero == [lat |-> Some(0), lon |-> Some(13977)]
ScriptNeither == [lat |-> None, lon |-> None]
MapTsukiji == [lat |-> 3566, lon |-> 13977]

NoComment == None
CommentLong == Some([title |-> CatchFresh, body |-> Rep("c", 400)])
CommentTitle == Some([title |-> CatchFresh, body |-> <<>>])
CommentEmpty == Some([title |-> <<>>, body |-> <<" ">>])

DetailFailed ==
  [ok |-> FALSE, price_text |-> <<>>, awards |-> <<>>, categories |-> <<>>,
   remarks |-> <<>>, private_rooms |-> <<>>, scripts |-> <<>>,
   map_link |-> None, pr_comment |-> None]

TabelogDetailPages ==
  {DetailFailed} \cup
  [ok : {TRUE},
   price_text : {<<>>, PricePlain, PriceStray},
   awards : {<<>>, Rep("w", 160)},
   categories : {<<>>, CatSushi},
   remarks : {<<>>, Rep("r", 101)},
   private_rooms : {<<>>, RoomsAvailable},
   scripts : {<<>>, <<ScriptNeither, ScriptBoth>>, <<ScriptLatOnly>>,
              <<ScriptZero>>},
   map_link : {None, Some(MapTsukiji)},
   pr_comment : {NoComment, CommentLong, CommentTitle, CommentEmpty}]

TabelogListItems ==
  [href : {NoneText, UrlSushiDai, <<"en", "tokyo", "A1303", "A130301", "13000002">>},
   name : {NameSushiDai, NameMenya},
   price_text : {NoneText, P999},
   area_text : {NoneText, AreaTsukiji, AreaNone},
   catch_text : {NoneText, CatchFresh, Rep("k", 310)}]

\* The categories of self.categories the model runs over.
Categories == {CatSushi, CatRamen, CatUdon}

ItemPlain ==
  [href |-> UrlSushiDai, name |-> NameSushiDai, price_text |-> P999,
   area_text |-> AreaTsukiji, catch_text |-> CatchFresh]

DetailPlain ==
  [ok |-> TRUE, price_text |-> PricePlain, awards |-> <<>>,
   categories |-> CatSushi, remarks |-> <<>>, private_rooms |-> <<>>,
   scripts |-> <<ScriptBoth>>, map_link |-> None, pr_comment |-> NoComment]

\* List items with their detail pages: every list item with a failed and a
\* plain detail page, and the plain list item with every detail page.
ItemsWithDetail ==
  [item : TabelogListItems, detail : {DetailFailed, DetailPlain}]
  \cup [item : {ItemPlain}, detail : TabelogDetailPages]

InitItem ==
  /\ prog = "scrape_item"
  /\ pc = "call"
  /\ \E it \in ItemsWithDetail, c \in {CatSushi, CatRamen} :
       list_item = Some([item |-> it.item, detail |-> it.detail,
                         category |-> c])
  /\ restaurant = None
  /\ IdleButItem

\* The body of the loop over list_items for one item (without the duplicate
\* check, which InitRun's program has).
ScrapeItem ==
  /\ prog = "scrape_item"
  /\ pc = "call"
  /\ restaurant' = scrape_item(list_item[1], list_item[1].category)
  /\ pc' = "returned"
  /\ UNCHANGED <<prog, list_item, notItem>>

\* --------------------------------------- TabelogScraper.run, scrape_category

\* The list items of the pages of a run.
RunItem(href, detail) ==
  [item |-> [ItemPlain EXCEPT !.href = href], detail |-> detail]

RunListItems ==
  {RunItem(UrlSushiDai, DetailPlain),
   RunItem(UrlSushiDai, DetailFailed),
   RunItem(<<"en", "tokyo", "A1303", "A130301", "13000002">>, DetailPlain),
   RunItem(NoneText, DetailFailed)}

\* The orders random.shuffle can leave the categories in.
Shuffles(n) ==
  {s \in [1..n -> Categories] : \A i, j \in 1..n : i # j => s[i] # s[j]}

InitRun ==
  /\ prog = "run"
  /\ pc = "fetch_list"
  /\ cat_items \in Shuffles(Min(MaxCategories, Cardinality(Categories)))
  /\ cat_idx = 0
  /\ page = 1
  /\ items = <<>>
  /\ detail_fetches = 0
  /\ card_outcome = "none"
  /\ all_pois = <<>>
  /\ IdleFetch
  /\ IdleButRun

\* A scrape_category that returns no item.
ItemsLost(its) == <<>>

\* What scrape_category returns when the while loop is left with its items.
returned_items(its) == its

\* scrape_category returns items; run extends all_pois with them and turns
\* to the next category, or returns all_pois after the last one.
ReturnItems ==
  /\ all_pois' = all_pois \o returned_items(items)
  /\ cat_idx' = cat_idx + 1
  /\ items' = <<>>
  /\ detail_fetches' = 0
  /\ card_outcome' = "none"
  /\ page' = 1
  /\ pc' = IF cat_idx' = Len(cat_items) THEN "done" ELSE "fetch_list"

\* The while test and the fetch of a list page.  The loop is left when items
\* has reached limit; when the request raises or its status is not 200 (the
\* page failed); and when the page holds no list item.
FetchListPage ==
  /\ prog = "run"
  /\ pc = "fetch_list"
  /\ \/ /\ Len(items) >= MaxPerCategory
        /\ ReturnItems
        /\ UNCHANGED fetchVars
     \/ /\ Len(items) < MaxPerCategory
        /\ page_status' = "failed"
        /\ UNCHANGED any_page_ok
        /\ ReturnItems
     \/ /\ Len(items) < MaxPerCategory
        /\ page_status' = "ok"
        /\ any_page_ok' = TRUE
        /\ \/ ReturnItems
           \/ /\ pc' = "first_item"
              /\ UNCHANGED <<cat_idx, page, items, detail_fetches,
                             card_outcome, all_pois>>
  /\ UNCHANGED <<prog, cat_items, notRun>>

\* An iteration that appends the record of a card whatever ids items holds.
AppendsDuplicates(it, category, its) ==
  LET p == parse_restaurant_card(it.item, category)
  IN  IF p = None THEN its
      ELSE Append(its, update_poi(p[1], parse_detail_page(it.detail)))

\* One iteration of the loop over list_items.
loop_body(it, category, its) ==
  LET p == parse_restaurant_card(it.item, category)
  IN  IF p = None THEN its
      ELSE IF \E i \in DOMAIN its : its[i].id = p[1].id THEN its
      ELSE Append(its, update_poi(p[1], parse_detail_page(it.detail)))

\* Whether the iteration reaches the call of parse_detail_page: the card
\* was parsed and its id is not among the ids of items.
fetches_detail(it, category, its) ==
  LET p == parse_restaurant_card(it.item, category)
  IN  p # None /\ ~\E i \in DOMAIN its : its[i].id = p[1].id

NextListItem ==
  /\ prog = "run"
  /\ pc \in {"first_item", "next_item"}
  /\ \E it \in RunListItems :
       /\ items' = loop_body(it, cat_items[cat_idx + 1], items)
       /\ detail_fetches' =
            IF fetches_detail(it, cat_items[cat_idx + 1], items)
            THEN detail_fetches + 1 ELSE detail_fetches
       /\ card_outcome' =
            IF parse_restaurant_card(it.item, cat_items[cat_idx + 1]) = None
            THEN "unparsed"
            ELSE IF fetches_detail(it, cat_items[cat_idx + 1], items)
            THEN "appended" ELSE "skipped"
  /\ pc' = IF Len(items') >= MaxPerCategory THEN "next_link" ELSE "next_item"
  /\ UNCHANGED <<prog, cat_items, cat_idx, page, all_pois, fetchVars, notRun>>

\* A next page check that asks for the same page again.
SamePageAgain ==
  /\ prog = "run"
  /\ pc \in {"next_item", "next_link"}
  /\ \/ ReturnItems
     \/ /\ page < MaxPage
        /\ pc' = "fetch_list"
        /\ UNCHANGED <<cat_idx, page, items, detail_fetches, card_outcome,
                       all_pois>>
  /\ UNCHANGED <<prog, cat_items, fetchVars, notRun>>

\* list_items is exhausted, or the loop over it was left at limit: without
\* an enabled next link the while loop is left, else page is increased.
NextPageCheck ==
  /\ prog = "run"
  /\ pc \in {"next_item", "next_link"}
  /\ \/ ReturnItems
     \/ /\ page < MaxPage
        /\ page' = page + 1
        /\ pc' = "fetch_list"
        /\ UNCHANGED <<cat_idx, items, detail_fetches, card_outcome,
                       all_pois>>
  /\ UNCHANGED <<prog, cat_items, fetchVars, notRun>>

\* ------------------------------------------------- Scrapy items (items.py)

\* An item is the sequence of its field names in insertion order (keys) and
\* the value of each (val).  A field that is not set is not among the keys.
ItemOf(pairs) ==
  [keys |-> [i \in DOMAIN pairs |-> pairs[i][1]],
   val |-> [k \in {pairs[i][1] : i \in DOMAIN pairs} |->
              pairs[CHOOSE i \in DOMAIN pairs : pairs[i][1] = k][2]]]

has(it, k) == k \in DOMAIN it.val

\* adapter.get(k, default)
get(it, k, default) == IF has(it, k) THEN it.val[k] ELSE default

\* adapter[k] = v
setitem(it, k, v) ==
  [keys |-> IF has(it, k) THEN it.keys ELSE Append(it.keys, k),
   val |-> [f \in DOMAIN it.val \cup {k} |-> IF f = k THEN v ELSE it.val[f]]]

TypeEventVenue == <<"e", "v", "e", "n", "t", "_", "v", "e", "n", "u", "e">>
TypeAttraction == <<"a", "t", "t", "r", "a", "c", "t", "i", "o", "n">>
TypeRestaurant == <<"r", "e", "s", "t", "a", "u", "r", "a", "n", "t">>
TypeShop == <<"s", "h", "o", "p">>
TypeCapitalized == <<"R", "e", "s", "t", "a", "u", "r", "a", "n", "t">>
TypePadded == <<" ", "s", "h", "o", "p", " ">>
TypeHotel == <<"h", "o", "t", "e", "l">>
TextUnnamed == <<"u", "n", "n", "a", "m", "e", "d">>
TagsText == <<"F", "e", "s", "t", "i", "v", "a", "l", ",", " ", "F", "o", "o", "d", ",">>
NamePadded == <<" ", "A", "b", " ">>

\* hashlib.md5(name.encode('utf-8')).hexdigest()[:12] of the names above.
hexdigest12_name(name) ==
  CASE name = NameExpo -> "c29f23f27912"
    [] name = NameAb -> "0e4c46df226b"
    [] name = NamePadded -> "aa631f75a71a"
    [] name = NameSakura -> "1c97cea10010"
    [] name = TextUnnamed -> "4af52202f77b"
    [] name = <<>> -> "d41d8cd98f00"

\* text.split(',')
RECURSIVE split_commas(_, _)
split_commas(s, cur) ==
  IF s = <<>> THEN <<cur>>
  ELSE IF Head(s) = "," THEN <<cur>> \o split_commas(Tail(s), <<>>)
  ELSE split_commas(Tail(s), Append(cur, Head(s)))

\* A tag field holds a str or a list of tags.
TagStr(text) == [str |-> text]

TagList(tags) == [list |-> tags]

is_str(v) == "str" \in DOMAIN v

\* ------------------------------------------------- pipelines (pipelines.py)

ValidTypes == {TypeAttraction, TypeRestaurant, TypeShop, TypeEventVenue}

Now == "now"

\* An id generation that digests the name whenever the item has one.
NameBeforeUrl(it) ==
  IF get(it, "id", "") = ""
  THEN LET source_url == get(it, "source_url", <<>>)
           name == get(it, "name", <<>>)
       IN  setitem(it, "id", IF name # <<>> THEN hexdigest12_name(name)
                             ELSE IF source_url # <<>>
                             THEN hexdigest12(source_url)
                             ELSE hexdigest12_name(TextUnnamed))
  ELSE it

normalize_id(it) ==
  IF get(it, "id", "") = ""
  THEN LET source_url == get(it, "source_url", <<>>)
           name == get(it, "name", TextUnnamed)
       IN  setitem(it, "id", IF source_url # <<>> THEN hexdigest12(source_url)
                             ELSE hexdigest12_name(name))
  ELSE it

normalize_type(it) ==
  LET poi_type == strip(lower(get(it, "type", <<>>)))
  IN  IF poi_type \notin ValidTypes THEN setitem(it, "type", TypeEventVenue)
      ELSE it

normalize_tags(it, tag_field) ==
  IF has(it, tag_field) /\ is_str(it.val[tag_field])
  THEN LET parts == split_commas(it.val[tag_field].str, <<>>)
           stripped == [i \in DOMAIN parts |-> strip(parts[i])]
       IN  setitem(it, tag_field,
                   TagList(SelectSeq(stripped, LAMBDA tag : tag # <<>>)))
  ELSE it

normalize_duration(it) ==
  IF get(it, "typical_duration_minutes", 0) = 0
  THEN LET category_tags == get(it, "category_tags", TagList(<<>>)).list
       IN  setitem(it, "typical_duration_minutes",
                   IF \E i \in DOMAIN category_tags :
                        contains(lower(category_tags[i]), TextFestival)
                   THEN 180 ELSE 90)
  ELSE it

\* A default that overwrites whatever the field holds.
AlwaysSet(it, k, empty, v) == setitem(it, k, v)

\* if not adapter.get(k): adapter[k] = v, where empty is the falsy value of
\* the field's type next to None.
set_default(it, k, empty, v) ==
  IF get(it, k, None) \in {None, empty} THEN setitem(it, k, v) ELSE it

\* POINormalizationPipeline.process_item
normalize(it) ==
  LET a1 == normalize_type(normalize_id(it))
      a2 == normalize_tags(normalize_tags(a1, "category_tags"), "interest_tags")
      a3 == set_default(a2, "cuisine", Some(<<>>), None)
      a4 == IF get(a3, "neighborhood", <<>>) = <<>>
            THEN setitem(a3, "neighborhood", TextTokyo) ELSE a3
      a5 == IF get(a4, "halal", "") = ""
            THEN setitem(a4, "halal", "unknown") ELSE a4
      a6 == set_default(a5, "price_range", Some(0), None)
      a7 == IF ~has(a6, "coordinates")
            THEN setitem(a6, "coordinates", NoCoordinates) ELSE a6
      a8 == normalize_duration(a7)
      a9 == set_default(a8, "best_time_of_day", Some(""), None)
  IN  setitem(a9, "last_updated_ts", Now)

\* A validation without the test of the name's length.
RequiredOnly(it) ==
  IF get(it, "id", "") = "" \/ get(it, "name", <<>>) = <<>>
     \/ get(it, "type", <<>>) = <<>>
  THEN None
  ELSE Some(it)

\* ValidationPipeline.process_item
validate(it) ==
  IF get(it, "id", "") = "" \/ get(it, "name", <<>>) = <<>>
     \/ get(it, "type", <<>>) = <<>>
  THEN None
  ELSE IF Len(strip(get(it, "name", <<>>))) < 3 THEN None
  ELSE Some(it)

field_order ==
  <<"id", "name", "type", "category_tags", "neighborhood", "price_range",
    "halal", "cuisine", "interest_tags", "coordinates",
    "typical_duration_minutes", "best_time_of_day", "short_description",
    "source_url", "last_updated_ts">>

\* A reordering that keeps the canonical fields only.
CanonicalOnly(it) ==
  [keys |-> SelectSeq(field_order, LAMBDA f : has(it, f)),
   val |-> [f \in DOMAIN it.val \cap Range(field_order) |-> it.val[f]]]

\* FieldOrderPipeline.process_item
reorder(it) ==
  [keys |-> SelectSeq(field_order, LAMBDA f : has(it, f))
            \o SelectSeq(it.keys, LAMBDA f : f \notin Range(field_order)),
   val |-> it.val]

\* The pipelines in the order of ITEM_PIPELINES up to JSONExportPipeline:
\* the item JSONExportPipeline.process_item appends, None when none reaches
\* it.  Each pipeline is handed what the one before returned, and
\* POINormalizationPipeline raises on the None ValidationPipeline returns
\* for a rejected item (ItemAdapter(None) is a TypeError), which ends the
\* processing of that item.
process_chain(it) ==
  LET validated == validate(it)
  IN  IF validated = None THEN None
      ELSE Some(reorder(normalize(validated[1])))

IdChoices == {<<>>, << <<"id", "">> >>, << <<"id", "c29f23f27912">> >>}

NameChoices ==
  {<<>>} \cup
  {<< <<"name", n>> >> : n \in {<<>>, NameAb, NamePadded, NameExpo}}

TypeChoices ==
  {<<>>} \cup
  {<< <<"type", t>> >> :
     t \in {<<>>, TypeEventVenue, TypeCapitalized, TypePadded, TypeHotel}}

RestChoices ==
  {<<>>,
   << <<"source_url", UrlSakura>>,
      <<"category_tags", TagStr(TagsText)>>,
      <<"coordinates", [lat |-> Some(3568), lon |-> Some(13976)]>> >>,
   << <<"last_updated_ts", "then">>,
      <<"category_tags", TagList(<<TagFood>>)>>,
      <<"neighborhood", TextTokyo>> >>}

\* The fields that POINormalizationPipeline gives a default, populated, and
\* a comma-separated tag text; the same fields holding the empty value of
\* their type.
PopulatedPairs ==
  << <<"neighborhood", TextShinjuku>>,
     <<"halal", "yes">>,
     <<"price_range", Some(2)>>,
     <<"coordinates", [lat |-> Some(3568), lon |-> Some(13976)]>>,
     <<"best_time_of_day", Some("evening")>>,
     <<"typical_duration_minutes", 45>>,
     <<"category_tags", TagStr(TagsText)>> >>

EmptyPairs ==
  << <<"neighborhood", <<>> >>,
     <<"halal", "">>,
     <<"price_range", Some(0)>>,
     <<"best_time_of_day", Some("")>>,
     <<"typical_duration_minutes", 0>> >>

\* Items with id, name, short_description and source_url, and with every
\* choice of populated fields; one item with the empty values.
DefaultItems ==
  LET described == << <<"source_url", UrlSakura>>,
                      <<"id", "c29f23f27912">>,
                      <<"name", NameExpo>>,
                      <<"short_description", DescShort>> >>
  IN  {ItemOf(described
              \o SelectSeq(PopulatedPairs, LAMBDA pr : pr[1] \in fields)) :
         fields \in SUBSET {PopulatedPairs[i][1] : i \in DOMAIN PopulatedPairs}}
      \cup {ItemOf(described \o EmptyPairs)}

\* The items handed to the pipelines.
PipelineItems ==
  {ItemOf(r[1] \o r[2] \o r[3] \o r[4]) :
     r \in IdChoices \X NameChoices \X TypeChoices \X RestChoices}
  \cup DefaultItems

\* The items of a run of the pipelines.
ChainItems ==
  {it \in PipelineItems :
     /\ ~has(it, "source_url") /\ ~has(it, "last_updated_ts")
     /\ get(it, "type", <<>>) \notin {TypePadded, TypeHotel}}

InitNormalize ==
  /\ prog = "normalize"
  /\ pc = "call"
  /\ element = None
  /\ item \in {Some(it) : it \in PipelineItems}
  /\ normalized = None
  /\ ordered = None
  /\ processed = 0
  /\ exported = <<>>
  /\ IdleButScrapy

\* POINormalizationPipeline.process_item on its own.
Normalize ==
  /\ prog = "normalize"
  /\ pc = "call"
  /\ normalized' = Some(normalize(item[1]))
  /\ pc' = "returned"
  /\ UNCHANGED <<prog, element, item, ordered, processed, exported,
                 computed_tags, notScrapy>>

\* Fields in an order other than the canonical one, two of them (image_url
\* and rating) not canonical; the items handed to FieldOrderPipeline on its
\* own are the items of the subsequences of these fields.
OrderPairs ==
  << <<"source_url", UrlSakura>>,
     <<"image_url", UrlTower>>,
     <<"name", NameExpo>>,
     <<"rating", 352>>,
     <<"id", "c29f23f27912">>,
     <<"category_tags", TagList(<<TagFood>>)>>,
     <<"type", TypeShop>> >>

OrderItems ==
  {ItemOf(SelectSeq(OrderPairs, LAMBDA pr : pr[1] \in fields)) :
     fields \in SUBSET {OrderPairs[i][1] : i \in DOMAIN OrderPairs}}

InitOrder ==
  /\ prog = "order_fields"
  /\ pc = "call"
  /\ element = None
  /\ item \in {Some(it) : it \in OrderItems}
  /\ normalized = None
  /\ ordered = None
  /\ processed = 0
  /\ exported = <<>>
  /\ IdleButScrapy

\* FieldOrderPipeline.process_item on its own.
OrderFields ==
  /\ prog = "order_fields"
  /\ pc = "call"
  /\ ordered' = Some(reorder(item[1]))
  /\ pc' = "returned"
  /\ UNCHANGED <<prog, element, item, normalized, processed, exported,
                 computed_tags, notScrapy>>

InitPipeline ==
  /\ prog = "process_item"
  /\ pc = "open"
  /\ IdleScrapy
  /\ IdleButScrapy

\* An item goes through the pipelines.
ProcessItem ==
  /\ prog = "process_item"
  /\ processed < MaxItems
  /\ \E it \in ChainItems :
       /\ item' = Some(it)
       /\ exported' = IF process_chain(it) = None THEN exported
                      ELSE Append(exported, process_chain(it)[1])
  /\ processed' = processed + 1
  /\ UNCHANGED <<prog, pc, element, normalized, ordered, computed_tags,
                 notScrapy>>

\* ---------------------------------- GoTokyoEventsSpider (spiders/gotokyo_events.py)

\* The listing page the cards of the model are on.
ResponseUrl == UrlEventIndex

\* ' '.join(parts).strip()
join_strip(parts) == strip(join(<<" ">>, parts))

\* TakeFirst() after MapCompose(str.strip): the first value that is neither
\* None nor '' of the stripped values, None when there is none.
take_first_stripped(values) ==
  LET stripped == SelectSeq([i \in DOMAIN values |-> strip(values[i])],
                            LAMBDA v : v # <<>>)
  IN  IF stripped = <<>> THEN None ELSE Some(stripped[1])

\* loader.load_item() sets the fields that have an output value, in the
\* order of their first add_value.
load_item(pairs) ==
  LET valued == SelectSeq(pairs, LAMBDA p : p[2] # None)
  IN  ItemOf([i \in DOMAIN valued |-> <<valued[i][1], valued[i][2][1]>>])

\* TakeFirst(): the first value that is neither None nor ''.
take_first(values) ==
  LET kept == SelectSeq(values, LAMBDA v : v # <<>>)
  IN  IF kept = <<>> THEN None ELSE Some(kept[1])

\* The output of a tag field: POIItemLoader has no output processor of its
\* own for category_tags and interest_tags, so default_output_processor,
\* TakeFirst(), turns the list handed to add_value into its first tag.
take_first_tag(tags) ==
  IF take_first(tags) = None THEN None ELSE Some(TagStr(take_first(tags)[1]))

\* category_tags of the spider's parse_event_card after the loop over the
\* tag selectors and the keyword rules, before the 'Event' default.
spider_category_tags(el) ==
  LET name == join_strip(el.names)
      description == IF join_strip(el.descriptions) = <<>> THEN name
                     ELSE join_strip(el.descriptions)
      explicit == explicit_tags(el.tags)
  IN  IF explicit # <<>> THEN explicit
      ELSE infer_category_tags(text_content(name, description))

\* The spider's parse_event_card.  An element as it reads it: href of its
\* first link (NoneText without one); names, descriptions, dates and
\* locations (the texts of the first selector that matches, <<>> when none
\* does); tags (the texts the five tag selectors find, in their order).
spider_parse_event_card(el) ==
  IF el.href = NoneText THEN None
  ELSE LET event_url == urljoin(GoTokyoHost, el.href)
           name == join_strip(el.names)
           description == IF join_strip(el.descriptions) = <<>> THEN name
                          ELSE join_strip(el.descriptions)
           event_date == join_strip(el.dates)
           neighborhood == IF el.locations = <<>> THEN TextTokyo
                           ELSE join_strip(el.locations)
           inferred == spider_category_tags(el)
           category_tags == IF inferred = <<>> THEN <<TagEvent>> ELSE inferred
           interest_tags ==
             category_tags \o situational_tags(text_content(name, description))
           time_text == lower(name \o <<" ">> \o description \o <<" ">>
                              \o event_date)
       IN  IF Len(name) < 3 THEN None
           ELSE Some(load_item(
                  <<<<"source_url", Some(event_url)>>,
                    <<"id", Some(hexdigest12(event_url))>>,
                    <<"name", take_first_stripped(<<name>>)>>,
                    <<"type", take_first_stripped(<<lower(TypeEventVenue)>>)>>,
                    <<"short_description", take_first_stripped(<<description>>)>>,
                    <<"neighborhood", take_first_stripped(<<neighborhood>>)>>,
                    <<"category_tags", take_first_tag(category_tags)>>,
                    <<"interest_tags", take_first_tag(interest_tags)>>,
                    <<"best_time_of_day",
                      IF best_time(time_text) = None THEN None
                      ELSE Some(best_time(time_text))>>,
                    <<"halal", Some("unknown")>>,
                    <<"price_range", None>> >>))

\* The spider's extract_coordinates: the pair of the first map link that
\* matches, else of the first script that matches, None without a match or
\* when the extraction raises.
spider_extract_coordinates(response) ==
  IF response.raises THEN None
  ELSE LET link == first_match(response.map_links)
           script == first_match(response.scripts)
       IN  IF link # None
           THEN Some([lat |-> Some(link[1].lat), lon |-> Some(link[1].lon)])
           ELSE IF script # None
           THEN Some([lat |-> Some(script[1].lat), lon |-> Some(script[1].lng)])
           ELSE None

\* Characters clean_description keeps of a long description, and the least
\* position of the period it cuts at.
DescriptionLimit == 300

SentenceMin == 150

clean_description(description) ==
  IF description = <<>> THEN <<>>
  ELSE LET desc == join_words(description)
           short == prefix(desc, DescriptionLimit)
           last_period == rfind(short, ".")
       IN  IF Len(desc) > DescriptionLimit
           THEN IF last_period > SentenceMin THEN prefix(short, last_period + 1)
                ELSE short \o Ellipsis
           ELSE desc

\* parse_event_detail: the item it yields for the item of the card; the
\* response has desc_parts, the paragraphs of the first detail selector that
\* matches.
parse_event_detail(poi_item, response) ==
  LET coordinates == spider_extract_coordinates(response)
      a1 == IF coordinates # None
            THEN setitem(poi_item, "coordinates", coordinates[1])
            ELSE poi_item
      detailed_desc == join_strip(response.desc_parts)
  IN  IF /\ Len(response.desc_parts) > 1
         /\ Len(detailed_desc) > Len(get(a1, "short_description", <<>>))
      THEN setitem(a1, "short_description", clean_description(detailed_desc))
      ELSE a1

\* What parse yields for an element: the card's item itself when its link
\* is the listing page, else the item parse_event_detail yields for the
\* response to the followed request (detail, None when no response arrives).
parse_element(el, detail) ==
  LET poi_item == spider_parse_event_card(el)
  IN  IF poi_item = None THEN None
      ELSE IF poi_item[1].val["source_url"] = ResponseUrl THEN poi_item
      ELSE IF detail = None THEN None
      ELSE Some(parse_event_detail(poi_item[1], detail[1]))

NamesSplit == <<<<" ", "E", "x", "p", "o">>, <<"2", "5", " ">> >>

\* Elements that vary the link, the name and the description, and elements
\* that vary the texts the keyword rules read.
SpiderElements ==
  [href : {NoneText, <<"en", "event", "sakura.html">>, UrlEventIndex},
   names : {<<>>, <<NameAb>>, <<NameSakura>>, NamesSplit},
   descriptions : {<<>>, <<DescShort>>, <<Rep("d", 400)>>},
   dates : {<<>>},
   locations : {<<>>, << <<" ", " ">> >>},
   tags : {<<>>}]
  \cup
  [href : {<<"en", "event", "sakura.html">>},
   names : {<<NameSakura>>, <<NameFamilyDay>>, <<NameNightConcert>>,
            <<NameJazzShow>>},
   descriptions : {<<>>, <<DescBlossom>>},
   dates : {<<>>, <<DateIllumination>>, <<DateMorning>>},
   locations : {<<>>, <<TextShinjuku>>},
   tags : {<<>>, <<TagFood, TagFestival>>, <<SpanComma>>, <<SpanFoodDrink>>,
           <<LocationBlank, Rep("x", 50)>>}]

ElementPlain ==
  [href |-> <<"en", "event", "sakura.html">>, names |-> <<NameSakura>>,
   descriptions |-> <<DescShort>>, dates |-> <<>>, locations |-> <<>>,
   tags |-> <<>>]

Response(detail, desc_parts) ==
  [raises |-> detail.raises, map_links |-> detail.map_links,
   scripts |-> detail.scripts, desc_parts |-> desc_parts]

DescParts ==
  {<<>>,
   <<Rep("e", 500)>>,
   <<DescShort, DescShort>>,
   <<Rep("a", 200) \o <<".">>, Rep("b", 200)>>,
   <<Rep("x", 350), <<"y">> >>}

ResponsePlain == Response(PageLink, <<>>)

\* The responses to the request for a detail page; None when none arrives.
DetailResponses ==
  {None} \cup {Some(Response(d, <<>>)) : d \in DetailPages}
  \cup {Some(Response(PageEmpty, ps)) : ps \in DescParts}

\* Elements with the response to their detail request: every element with a
\* plain response, and the plain element with every response.
ElementsWithDetail ==
  [element : SpiderElements, detail : {Some(ResponsePlain)}]
  \cup [element : {ElementPlain}, detail : DetailResponses]

InitParse ==
  /\ prog = "parse"
  /\ pc = "call"
  /\ element \in {Some(e) : e \in ElementsWithDetail}
  /\ item = None
  /\ normalized = None
  /\ ordered = None
  /\ processed = 0
  /\ exported = <<>>
  /\ IdleButScrapy

\* The body of parse's loop for one element, and the item it yields going
\* through the pipelines.
ParseElement ==
  /\ prog = "parse"
  /\ pc = "call"
  /\ item' = parse_element(element[1].element, element[1].detail)
  /\ computed_tags' =
       IF spider_parse_event_card(element[1].element) = None THEN None
       ELSE Some(spider_category_tags(element[1].element))
  /\ exported' = IF item' = None \/ process_chain(item'[1]) = None
                 THEN exported
                 ELSE Append(exported, process_chain(item'[1])[1])
  /\ processed' = IF item' = None THEN processed ELSE processed + 1
  /\ pc' = "returned"
  /\ UNCHANGED <<prog, element, normalized, ordered, notScrapy>>

\* ------------------------------------------- claims: scrape_all_events

GoTokyoRun == prog = "scrape_all_events"

GoTokyoDone == GoTokyoRun /\ pc = "done"

SourceUrls(events) == {events[i].source_url : i \in DOMAIN events}

\* C1: the list scrape_all_events returns holds no two records with the same
\* source_url (equivalently the same id), pagination pages included.
C1_NoDuplicateSourceUrl ==
  GoTokyoDone =>
    \A i, j \in DOMAIN all_events :
       i # j => /\ all_events[i].source_url # all_events[j].source_url
                /\ all_events[i].id # all_events[j].id

\* The quality filter: a name of more than five characters that is no
\* placeholder, and a source_url that is no generic landing page.
PassesQualityFilter(e) ==
  /\ Len(e.name) > 5
  /\ e.name # NameMore /\ e.name # NameBeyond
  /\ ~endswith(e.source_url, <<"spot", "index.html">>)
  /\ ~endswith(e.source_url, <<"event", "index.html">>)
  /\ ~endswith(e.source_url,
               <<"tourists", "spot", "suburbs", "fromtokyo", "index.html">>)

IsPrefix(s, t) == Len(s) <= Len(t) /\ SubSeq(t, 1, Len(s)) = s

\* C2: deduplication over the start URLs is first-seen wins.  While the start
\* URLs are processed, the URLs marked as seen are exactly those of the kept
\* records, which all pass the quality filter and have pairwise distinct
\* URLs; an event is appended exactly when it passes the quality filter and
\* no kept record has its URL, and otherwise the list is left as it is (a
\* rejected record marks nothing as seen); and no step of the run, pagination
\* included, replaces or changes a record already in the list.
C2_FirstSeenWins ==
  /\ [](GoTokyoRun /\ pc \in {"start_urls", "find_pagination"} =>
          /\ seen_urls = SourceUrls(all_events)
          /\ \A i \in DOMAIN all_events : PassesQualityFilter(all_events[i])
          /\ \A i, j \in DOMAIN all_events :
                i # j => all_events[i].source_url # all_events[j].source_url)
  /\ [][/\ IsPrefix(all_events, all_events')
        /\ (GoTokyoRun /\ pc = "start_urls" /\ event' # None) =>
              IF /\ PassesQualityFilter(event'[1])
                 /\ event'[1].source_url \notin SourceUrls(all_events)
                 /\ url_idx' = url_idx
              THEN /\ all_events' = Append(all_events, event'[1])
                   /\ seen_urls' = seen_urls \cup {event'[1].source_url}
              ELSE /\ all_events' = all_events
                   /\ seen_urls' = seen_urls]_vars

\* A later record with the URL of a kept record, passing the quality filter
\* itself, was processed and the kept record is still the earlier one.
C2_Witness ==
  /\ GoTokyoRun
  /\ event # None
  /\ PassesQualityFilter(event[1])
  /\ \E i \in DOMAIN all_events :
        /\ all_events[i].source_url = event[1].source_url
        /\ all_events[i] # event[1]

\* C5: no record of the list scrape_all_events returns has a name shorter
\* than 3 characters, a placeholder name, or a source_url ending in a generic
\* landing-page suffix, whether it came from a start URL or a pagination page.
C5_NoLowQualityRecord ==
  GoTokyoDone =>
    \A i \in DOMAIN all_events :
       /\ Len(all_events[i].name) >= 3
       /\ all_events[i].name \notin {NameMore, NameBeyond}
       /\ ~endswith(all_events[i].source_url, <<"spot", "index.html">>)
       /\ ~endswith(all_events[i].source_url, <<"event", "index.html">>)
       /\ ~endswith(all_events[i].source_url,
                    <<"tourists", "spot", "suburbs", "fromtokyo", "index.html">>)

\* ------------------------------------------------------ claims: parse_price

\* The amounts a price text holds: the values of its currency-number
\* substrings that carry at least one digit.
Amounts(s) ==
  LET prices == findall_price(s, 1, <<>>)
  IN  {int_of(strip_currency(prices[i])) :
         i \in {j \in DOMAIN prices : strip_currency(prices[j]) # <<>>}}

LargestAmount(s) == CHOOSE a \in Amounts(s) : \A b \in Amounts(s) : b <= a

\* The tier boundaries as the claim states them.
BoundaryTier(a) ==
  CASE a >= 1 /\ a <= 999 -> 1
    [] a >= 1000 /\ a <= 3999 -> 2
    [] a >= 4000 /\ a <= 9999 -> 3
    [] a >= 10000 -> 4

PriceReturned == prog = "parse_price" /\ pc = "returned"

\* C7: parse_price maps the largest amount in the price text to its tier:
\* 1..999 gives 1, 1000..3999 gives 2, 4000..9999 gives 3, 10000 and above
\* gives 4, for every price text that holds a positive amount.
C7_PriceTierOfLargestAmount ==
  (PriceReturned /\ price_str # NoneText /\ Amounts(price_str) # {}
     /\ LargestAmount(price_str) >= 1)
    => price_result = Some(BoundaryTier(LargestAmount(price_str)))

\* C8: parse_price returns null if and only if the text holds no numeric
\* substring or the largest value is zero; a text with a positive number
\* never yields null, also next to commas or currency signs without digits.
C8_PriceNullIffNoPositiveAmount ==
  PriceReturned =>
    (price_result = None
       <=> (price_str = NoneText \/ Amounts(price_str) = {}
              \/ LargestAmount(price_str) = 0))

\* ------------------------------------------------- claims: TabelogScraper.run

\* C3: the list run returns holds at most one record per id, also when the
\* same restaurant is listed under several categories.
C3_AtMostOneRecordPerId ==
  (prog = "run" /\ pc = "done") =>
    \A i, j \in DOMAIN all_pois : i # j => all_pois[i].id # all_pois[j].id

\* ----------------------------------------------------- claims: pipelines

\* An item the validation is to reject: id, name or type missing or empty, or
\* a name of fewer than 3 characters after trimming.
Rejectable(it) ==
  \/ ~has(it, "id") \/ ~has(it, "name") \/ ~has(it, "type")
  \/ it.val["id"] = "" \/ it.val["name"] = <<>> \/ it.val["type"] = <<>>
  \/ Len(strip(it.val["name"])) < 3

\* C4: with the pipelines in their configured order, an item whose id, name
\* or type is missing or empty, or whose trimmed name has fewer than 3
\* characters, is not appended to JSONExportPipeline.items and leaves the
\* list as it is, and the next item is still processed; every other item is
\* appended, at the end of the list, with its id and name.
C4_RejectedItemsNotExported ==
  /\ [](prog = "process_item" /\ processed < MaxItems => ENABLED ProcessItem)
  /\ [][processed' = processed + 1 =>
          IF Rejectable(item'[1])
          THEN exported' = exported
          ELSE /\ Len(exported') = Len(exported) + 1
               /\ SubSeq(exported', 1, Len(exported)) = exported
               /\ exported'[Len(exported')].val["id"] = item'[1].val["id"]
               /\ exported'[Len(exported')].val["name"] = item'[1].val["name"]
       ]_vars

\* An item was exported after an item before it had been rejected.
C4_Witness ==
  /\ prog = "process_item"
  /\ processed = 2
  /\ Len(exported) = 1
  /\ ~Rejectable(item[1])

\* C6: after POINormalizationPipeline.process_item the type is one of the
\* four type strings, and it is event_venue when the type handed in was
\* missing or not exactly one of the four.
C6_TypeIsOneOfFour ==
  (prog = "normalize" /\ pc = "returned") =>
    /\ normalized[1].val["type"] \in ValidTypes
    /\ get(item[1], "type", <<>>) \notin ValidTypes =>
         normalized[1].val["type"] = TypeEventVenue

\* ----------------------------------------------------- claims: all sources

Balanced(coordinates) == (coordinates.lat = None) <=> (coordinates.lon = None)

\* C9: every record of the Go Tokyo scraper, of the Tabelog scraper after
\* the detail page, and of the spider after the pipelines has coordinates
\* whose lat and lon are both null or both not null.
C9_CoordinatesBothOrNeither ==
  /\ poi # None => Balanced(poi[1].coordinates)
  /\ \A i \in DOMAIN all_events : Balanced(all_events[i].coordinates)
  /\ restaurant # None => Balanced(restaurant[1].coordinates)
  /\ \A i \in DOMAIN items : Balanced(items[i].coordinates)
  /\ \A i \in DOMAIN all_pois : Balanced(all_pois[i].coordinates)
  /\ \A i \in DOMAIN exported :
        /\ has(exported[i], "coordinates")
        /\ Balanced(exported[i].val["coordinates"])

\* A restaurant whose detail page has a script with a latitude only got both
\* coordinates from the map link.
C9_Witness ==
  /\ prog = "scrape_item"
  /\ restaurant # None
  /\ list_item[1].detail.scripts = <<ScriptLatOnly>>
  /\ restaurant[1].coordinates.lat # None
  /\ restaurant[1].coordinates.lon # None

EndsWithPeriod(d) == d # <<>> /\ d[Len(d)] = "."

\* C10: the short_description of every output record has at most 300
\* characters, and one that was truncated ends with a period (which an
\* ellipsis does too): for Go Tokyo after the date is appended, for Tabelog
\* with promotional-comment and constructed descriptions, for the spider
\* with and without a description from the detail page.
C10_ShortDescriptionBounded ==
  /\ poi # None =>
       /\ Len(poi[1].short_description) <= 300
       /\ Len(strip(raw[1].description)) > 200 =>
            EndsWithPeriod(poi[1].short_description)
  /\ \A i \in DOMAIN all_events : Len(all_events[i].short_description) <= 300
  /\ restaurant # None => Len(restaurant[1].short_description) <= 300
  /\ \A i \in DOMAIN all_pois : Len(all_pois[i].short_description) <= 300
  /\ \A i \in DOMAIN exported :
        has(exported[i], "short_description") =>
          Len(exported[i].val["short_description"]) <= 300

\* ------------------------------------------------ claims: event keyword rules

\* The card of the scenario: 'Sakura Festival', 'A beautiful cherry blossom
\* festival', date text 'April, evening illumination', location 'Shinjuku',
\* no span.
ScenarioCard(c) ==
  /\ c.name = NameSakura
  /\ c.description = DescBlossom
  /\ c.event_date = DateIllumination
  /\ c.location = TextShinjuku
  /\ c.spans = <<>>

ScenarioElement(el) ==
  /\ el.names = <<NameSakura>>
  /\ el.descriptions = <<DescBlossom>>
  /\ el.dates = <<DateIllumination>>
  /\ el.locations = <<TextShinjuku>>
  /\ el.tags = <<>>

\* C11: the scenario card gives a record with type event_venue,
\* category_tags holding both Seasonal and Festival, a duration of 180
\* minutes, best_time_of_day evening, neighborhood Shinjuku, interest_tags
\* holding Nightlife, a null price_range and halal unknown: from the Go Tokyo
\* scraper, and from the spider after the pipelines.
C11_SakuraFestivalScenario ==
  /\ (prog = "parse_event_card" /\ pc = "returned" /\ ScenarioCard(raw[1])) =>
       /\ poi # None
       /\ poi[1].type = "event_venue"
       /\ {TagSeasonal, TagFestival} \subseteq poi[1].category_tags
       /\ poi[1].typical_duration_minutes = 180
       /\ poi[1].best_time_of_day = Some("evening")
       /\ poi[1].neighborhood = TextShinjuku
       /\ TagNightlife \in poi[1].interest_tags
       /\ poi[1].price_range = None
       /\ poi[1].halal = "unknown"
  /\ (prog = "parse" /\ pc = "returned"
      /\ ScenarioElement(element[1].element)) =>
       /\ Len(exported) = 1
       /\ get(exported[1], "type", <<>>) = TypeEventVenue
       /\ {TagSeasonal, TagFestival}
            \subseteq Range(get(exported[1], "category_tags", TagList(<<>>)).list)
       /\ get(exported[1], "typical_duration_minutes", 0) = 180
       /\ get(exported[1], "best_time_of_day", None) = Some("evening")
       /\ get(exported[1], "neighborhood", <<>>) = TextShinjuku
       /\ TagNightlife
            \in Range(get(exported[1], "interest_tags", TagList(<<>>)).list)
       /\ get(exported[1], "price_range", Some(0)) = None
       /\ get(exported[1], "halal", "") = "unknown"

\* C12: in every record of the Go Tokyo scraper and of the spider after the
\* pipelines, interest_tags holds every tag of category_tags, also when the
\* category is the sentinel Event and a situational tag was added.
C12_InterestTagsIncludeCategoryTags ==
  /\ poi # None => poi[1].category_tags \subseteq poi[1].interest_tags
  /\ \A i \in DOMAIN all_events :
        all_events[i].category_tags \subseteq all_events[i].interest_tags
  /\ prog = "parse" =>
       \A i \in DOMAIN exported :
          Range(get(exported[i], "category_tags", TagList(<<>>)).list)
            \subseteq Range(get(exported[i], "interest_tags", TagList(<<>>)).list)

\* The card has no explicit tag and no keyword rule yields one.
NoTagOfCard(c) ==
  /\ explicit_tags(c.spans) = <<>>
  /\ infer_category_tags(
       text_content(strip(c.name),
                    IF c.description = NoneText THEN strip(c.name)
                    ELSE strip(c.description))) = <<>>

NoTagOfElement(el) ==
  /\ explicit_tags(el.tags) = <<>>
  /\ infer_category_tags(
       text_content(join_strip(el.names),
                    IF join_strip(el.descriptions) = <<>>
                    THEN join_strip(el.names)
                    ELSE join_strip(el.descriptions))) = <<>>

\* C13: category_tags of every record is non-empty: the Go Tokyo scraper and
\* the spider after the pipelines give exactly the sentinel Event when the
\* card has no explicit tag and no keyword rule yields one, and a Tabelog
\* record has the category name of its listing.
C13_CategoryTagsNonEmpty ==
  /\ poi # None =>
       /\ poi[1].category_tags # {}
       /\ NoTagOfCard(raw[1]) => poi[1].category_tags = {TagEvent}
  /\ \A i \in DOMAIN all_events : all_events[i].category_tags # {}
  /\ restaurant # None =>
       restaurant[1].category_tags = <<list_item[1].category>>
  /\ \A i \in DOMAIN all_pois : Len(all_pois[i].category_tags) = 1
  /\ prog = "parse" =>
       \A i \in DOMAIN exported :
          /\ get(exported[i], "category_tags", TagList(<<>>)).list # <<>>
          /\ NoTagOfElement(element[1].element) =>
               get(exported[i], "category_tags", TagList(<<>>)).list
                 = <<TagEvent>>

\* ------------------------------------------------ claims: fields of records

\* The area text of a Tabelog list item names no neighborhood.
NoAreaOf(li) ==
  li.area_text = NoneText \/ strip(before_slash(li.area_text)) = <<>>

\* C14: neighborhood of every record of every source is a non-empty string,
\* and it is Tokyo when the location text is absent, empty or whitespace
\* only, a Tabelog area text with nothing before its '/' included.
C14_NeighborhoodNonEmpty ==
  /\ poi # None => poi[1].neighborhood # <<>>
  /\ \A i \in DOMAIN all_events : all_events[i].neighborhood # <<>>
  /\ restaurant # None =>
       /\ restaurant[1].neighborhood # <<>>
       /\ NoAreaOf(list_item[1].item) => restaurant[1].neighborhood = TextTokyo
  /\ \A i \in DOMAIN all_pois : all_pois[i].neighborhood # <<>>
  /\ \A i \in DOMAIN exported :
        get(exported[i], "neighborhood", <<>>) # <<>>
  /\ prog = "parse" =>
       \A i \in DOMAIN exported :
          join_strip(element[1].element.locations) = <<>> =>
            get(exported[i], "neighborhood", <<>>) = TextTokyo

\* The keyword groups of the duration lookup and their minutes, in order.
DurationGroups ==
  <<[words |-> << <<"f", "e", "s", "t", "i", "v", "a", "l">>, <<"m", "a", "t",
     "s", "u", "r", "i">> >>, minutes |-> 180],
    [words |-> << <<"e", "x", "h", "i", "b", "i", "t", "i", "o", "n">>, <<"m",
     "u", "s", "e", "u", "m">> >>, minutes |-> 90],
    [words |-> << <<"c", "o", "n", "c", "e", "r", "t">>, <<"p", "e", "r", "f",
     "o", "r", "m", "a", "n", "c", "e">> >>, minutes |-> 120],
    [words |-> << <<"m", "a", "r", "k", "e", "t">>, <<"f", "a", "i", "r">> >>,
     minutes |-> 60],
    [words |-> << <<"c", "e", "r", "e", "m", "o", "n", "y">>, <<"r", "i", "t",
     "u", "a", "l">> >>, minutes |-> 45] >>

\* The minutes of the first group with a keyword in the lowercased name and
\* description, 90 when there is none.
DurationOf(name, description) ==
  LET hits == SelectSeq(DurationGroups,
                        LAMBDA g : any_in(g.words, lower(name \o <<" ">>
                                                          \o description)))
  IN  IF hits = <<>> THEN 90 ELSE hits[1].minutes

\* C15: typical_duration_minutes of every event record, of the Go Tokyo
\* scraper and of the spider after the pipelines, is positive and is the
\* minutes of the first group among festival/matsuri 180, exhibition/museum
\* 90, concert/performance 120, market/fair 60, ceremony/ritual 45 that
\* occurs in the event's name and description, 90 when none occurs.
C15_DurationOfFirstKeywordGroup ==
  /\ poi # None =>
       /\ poi[1].typical_duration_minutes > 0
       /\ poi[1].typical_duration_minutes =
            DurationOf(strip(raw[1].name),
                       IF raw[1].description = NoneText THEN strip(raw[1].name)
                       ELSE strip(raw[1].description))
  /\ prog = "parse" =>
       \A i \in DOMAIN exported :
          /\ get(exported[i], "typical_duration_minutes", 0) > 0
          /\ get(exported[i], "typical_duration_minutes", 0) =
               DurationOf(join_strip(element[1].element.names),
                          IF join_strip(element[1].element.descriptions) = <<>>
                          THEN join_strip(element[1].element.names)
                          ELSE join_strip(element[1].element.descriptions))

\* The keywords of the group of a time of day.
TimeWords(t) == (CHOOSE r \in Range(time_rules) : r.time = t).words

\* The time of day of the first group, in the priority order morning,
\* afternoon, evening, with a keyword in the text; null without one.
FirstTimeGroup(text) ==
  IF any_in(TimeWords("morning"), text) THEN Some("morning")
  ELSE IF any_in(TimeWords("afternoon"), text) THEN Some("afternoon")
  ELSE IF any_in(TimeWords("evening"), text) THEN Some("evening")
  ELSE None

TimesOfDay ==
  {Some("morning"), Some("afternoon"), Some("evening"), Some("night"), None}

\* The lowercased name, description and raw date text of a card.
TimeTextOfCard(c) ==
  lower(strip(c.name) \o <<" ">>
        \o (IF c.description = NoneText THEN strip(c.name)
            ELSE strip(c.description))
        \o <<" ">> \o strip(c.event_date))

TimeTextOfElement(el) ==
  lower(join_strip(el.names) \o <<" ">>
        \o (IF join_strip(el.descriptions) = <<>> THEN join_strip(el.names)
            ELSE join_strip(el.descriptions))
        \o <<" ">> \o join_strip(el.dates))

\* C16: best_time_of_day of an event record, of the Go Tokyo scraper and of
\* the spider after the pipelines, is the time of the first group in the
\* order morning, afternoon, evening that has a keyword in the lowercased
\* name, description and date text (a morning keyword wins over evening
\* keywords), null when no group has one, and always one of morning,
\* afternoon, evening, night and null.
C16_BestTimeByPriority ==
  /\ poi # None =>
       /\ poi[1].best_time_of_day = FirstTimeGroup(TimeTextOfCard(raw[1]))
       /\ poi[1].best_time_of_day \in TimesOfDay
  /\ \A i \in DOMAIN all_events : all_events[i].best_time_of_day \in TimesOfDay
  /\ prog = "parse" =>
       \A i \in DOMAIN exported :
          /\ has(exported[i], "best_time_of_day")
          /\ exported[i].val["best_time_of_day"]
               = FirstTimeGroup(TimeTextOfElement(element[1].element))
          /\ exported[i].val["best_time_of_day"] \in TimesOfDay

\* A card whose texts hold a morning keyword and an evening keyword got
\* morning.
C16_Witness ==
  /\ poi # None
  /\ raw[1].event_date = DateMorning
  /\ any_in(TimeWords("morning"), TimeTextOfCard(raw[1]))
  /\ any_in(TimeWords("evening"), TimeTextOfCard(raw[1]))
  /\ poi[1].best_time_of_day = Some("morning")

\* The id is the digest prefix of the absolute source_url.
DigestOfUrl(id, source_url) ==
  is_absolute(source_url) /\ id = hexdigest12(source_url)

\* C17: on every path the id of a record is the first 12 hex characters of
\* the digest of the record's own source_url, which is absolute, so records
\* with equal source_urls have equal ids across pages, runs and sources; the
\* pipeline, for an item without id, digests the name only when source_url
\* is empty.
C17_IdIsDigestOfSourceUrl ==
  /\ poi # None =>
       /\ DigestOfUrl(poi[1].id, poi[1].source_url)
       /\ poi[1].source_url = urljoin(GoTokyoHost, raw[1].href)
  /\ \A i \in DOMAIN all_events :
        DigestOfUrl(all_events[i].id, all_events[i].source_url)
  /\ restaurant # None =>
       DigestOfUrl(restaurant[1].id, restaurant[1].source_url)
  /\ \A i \in DOMAIN items : DigestOfUrl(items[i].id, items[i].source_url)
  /\ \A i \in DOMAIN all_pois :
        DigestOfUrl(all_pois[i].id, all_pois[i].source_url)
  /\ \A i \in DOMAIN all_events : \A j \in DOMAIN all_pois :
        all_events[i].source_url = all_pois[j].source_url
          => all_events[i].id = all_pois[j].id
  /\ prog = "parse" =>
       \A i \in DOMAIN exported :
          DigestOfUrl(exported[i].val["id"], exported[i].val["source_url"])
  /\ (prog = "normalize" /\ normalized # None
      /\ get(item[1], "id", "") = "") =>
       normalized[1].val["id"] =
         IF get(item[1], "source_url", <<>>) # <<>>
         THEN hexdigest12(item[1].val["source_url"])
         ELSE hexdigest12_name(get(item[1], "name", TextUnnamed))

\* The pipeline gave an item without id, with a name and a source_url, the
\* digest of its source_url.
C17_Witness ==
  /\ prog = "normalize"
  /\ normalized # None
  /\ ~has(item[1], "id")
  /\ get(item[1], "name", <<>>) = NameExpo
  /\ get(item[1], "source_url", <<>>) = UrlSakura
  /\ normalized[1].val["id"] = hexdigest12(UrlSakura)

\* ------------------------------------------------- claims: field coercion

\* A text (or None) without a digit.
NoDigit(text) == text = NoneText \/ \A i \in DOMAIN text : text[i] \notin Digits

\* The detail page of an event could not be fetched, or none of its map
\* links and scripts matches the coordinate patterns.
NoEventCoordinates(detail) ==
  \/ detail.raises
  \/ first_match(detail.map_links) = None /\ first_match(detail.scripts) = None

\* The detail page of a restaurant could not be fetched, or neither its
\* scripts nor its map link match the coordinate patterns.
NoRestaurantCoordinates(detail) ==
  \/ ~detail.ok
  \/ lat_lon_of_scripts(detail.scripts) = None /\ detail.map_link = None

\* C18: the field coercions are total on a text or None: parse_rating
\* returns without raising, and 0.0 for a text that holds no number;
\* parse_price returns null or a tier without raising, and null for a text
\* that holds no number; the coordinates are the pair of nulls when the
\* detail page cannot be fetched or matches no pattern; and the record of
\* the card is built all the same.
C18_FieldCoercionTotal ==
  /\ (prog = "parse_rating" /\ pc = "returned") =>
       /\ rating_result # None
       /\ ~rating_result[1].raised
       /\ NoDigit(rating_str) => rating_result[1].value = Zero
  /\ (prog = "parse_price" /\ pc = "returned") =>
       /\ price_result \in {None} \cup {Some(t) : t \in 1..4}
       /\ NoDigit(price_str) => price_result = None
  /\ (prog = "parse_event_card" /\ pc = "returned"
      /\ raw[1].href # NoneText) =>
       /\ poi # None
       /\ NoEventCoordinates(raw[1].detail) =>
            poi[1].coordinates = NoCoordinates
  /\ (prog = "scrape_item" /\ pc = "returned"
      /\ list_item[1].item.href # NoneText) =>
       /\ restaurant # None
       /\ NoRestaurantCoordinates(list_item[1].detail) =>
            restaurant[1].coordinates = NoCoordinates

\* parse_rating returned 0.0 for a text of letters, and for None.
C18_Witness ==
  /\ prog = "parse_rating"
  /\ pc = "returned"
  /\ rating_str \in {<<"s", "t", "a", "r", "s">>, NoneText}
  /\ rating_result = Some([raised |-> FALSE, value |-> Zero])

\* ------------------------------------------------ claims: failing pages

\* A finished run has gone through every start URL resp. category, and
\* returns the empty list when no listing page could be fetched.
RunsComplete ==
  /\ (prog = "scrape_all_events" /\ pc = "done") =>
       /\ url_idx = NumStartUrls
       /\ ~any_page_ok => all_events = <<>>
  /\ (prog = "run" /\ pc = "done") =>
       /\ cat_idx = Len(cat_items)
       /\ ~any_page_ok => all_pois = <<>>

\* No step removes a record from the result; the step in which a listing
\* page fails leaves the Go Tokyo run where it is (the loop then turns to
\* the next URL), and ends the Tabelog category with the items it has,
\* the run going on with the next category if there is one.
FailureStep ==
  /\ IsPrefix(all_events, all_events')
  /\ IsPrefix(all_pois, all_pois')
  /\ (prog = "scrape_all_events" /\ page_status = "pending"
      /\ page_status' = "failed") =>
       /\ pc' = pc
       /\ url_idx' = url_idx
       /\ all_events' = all_events
  /\ (prog = "scrape_all_events" /\ page_status = "failed"
      /\ pc = "start_urls") =>
       /\ url_idx' = url_idx + 1
       /\ all_events' = all_events
       /\ pc' # "done"
  /\ (prog = "run" /\ pc = "fetch_list" /\ Len(items) < MaxPerCategory
      /\ page_status' = "failed") =>
       /\ all_pois' = all_pois \o items
       /\ cat_idx' = cat_idx + 1
       /\ pc' = IF cat_idx' = Len(cat_items) THEN "done" ELSE "fetch_list"

\* C19: a listing page that cannot be fetched or parsed is not fatal to
\* scrape_all_events and to TabelogScraper.run: the records accepted before
\* stay in the result, the remaining start URLs and categories are still
\* processed, and a run in which every page fails returns the empty list.
C19_PageFailureNotFatal == []RunsComplete /\ [][FailureStep]_vars

\* A category's first page gave items, its second page failed, and the
\* items are in the result of the run.
C19_Witness ==
  /\ prog = "run"
  /\ page_status = "failed"
  /\ all_pois # <<>>
  /\ pc = "done"

\* ------------------------------------------------ claims: FieldOrderPipeline

\* The position of a field in the canonical sequence.
CanonicalIndex(f) == CHOOSE i \in DOMAIN field_order : field_order[i] = f

\* The canonical fields come first and in canonical relative order.
CanonicalFirst(keys) ==
  \A i, j \in DOMAIN keys :
     i < j =>
       /\ keys[i] \notin Range(field_order) => keys[j] \notin Range(field_order)
       /\ (keys[i] \in Range(field_order) /\ keys[j] \in Range(field_order))
            => CanonicalIndex(keys[i]) < CanonicalIndex(keys[j])

\* C20: FieldOrderPipeline.process_item only reorders: the item it returns
\* has the fields of the item it got, each once and with the same value,
\* the fields of the canonical sequence first and in canonical relative
\* order, the other fields after them; so has every exported item.
C20_FieldOrderOnlyReorders ==
  /\ (prog = "order_fields" /\ pc = "returned") =>
       /\ ordered # None
       /\ ordered[1].val = item[1].val
       /\ Range(ordered[1].keys) = Range(item[1].keys)
       /\ Len(ordered[1].keys) = Len(item[1].keys)
       /\ CanonicalFirst(ordered[1].keys)
  /\ \A i \in DOMAIN exported : CanonicalFirst(exported[i].keys)

\* An item with its fields out of canonical order and with fields outside
\* the canonical sequence was reordered.
C20_Witness ==
  /\ prog = "order_fields"
  /\ pc = "returned"
  /\ item[1].keys = <<"source_url", "image_url", "name", "rating", "id">>
  /\ ordered[1].keys = <<"id", "name", "source_url", "image_url", "rating">>

\* ------------------------------------------------ claims: explicit tags

\* The tag candidates that are non-empty after trimming and shorter than 50
\* characters, trimmed.
QualifyingCandidates(candidates) ==
  {strip(t) : t \in {c \in Range(candidates) :
                       strip(c) # <<>> /\ Len(strip(c)) < 50}}

\* The tags of the keyword rules that fire on a text.
KeywordTags(text) ==
  {r.tag : r \in {c \in Range(category_rules) :
                    \E w \in Range(c.words) : contains(text, w)}}

\* The tags computed for candidates and the text of name and description:
\* the qualifying candidates if there are any, else the keyword tags.
TagsByPriority(tags, candidates, text) ==
  IF QualifyingCandidates(candidates) # {}
  THEN Range(tags) = QualifyingCandidates(candidates)
  ELSE Range(tags) = KeywordTags(text)

\* C21: in parse_event_card of the scraper and of the spider the category
\* tags computed are exactly the tag candidates that are non-empty after
\* trimming and shorter than 50 characters when there is one, and no keyword
\* rule contributes a tag then; the keyword rules give the tags only when no
\* candidate qualifies.
C21_ExplicitTagsTakePriority ==
  /\ (prog = "parse_event_card" /\ pc = "returned" /\ poi # None) =>
       /\ computed_tags # None
       /\ TagsByPriority(computed_tags[1], raw[1].spans,
            text_content(poi[1].name,
              IF raw[1].description = NoneText THEN poi[1].name
              ELSE strip(raw[1].description)))
       /\ QualifyingCandidates(raw[1].spans) # {} =>
            poi[1].category_tags = QualifyingCandidates(raw[1].spans)
  /\ (prog = "parse" /\ pc = "returned" /\ computed_tags # None) =>
       TagsByPriority(computed_tags[1], element[1].element.tags,
         text_content(join_strip(element[1].element.names),
           IF join_strip(element[1].element.descriptions) = <<>>
           THEN join_strip(element[1].element.names)
           ELSE join_strip(element[1].element.descriptions)))

\* A card named 'Night Concert', on which the Music rule would fire, had the
\* tags Food and Festival and got exactly these.
C21_Witness ==
  /\ prog = "parse_event_card"
  /\ pc = "returned"
  /\ raw[1].name = NameNightConcert
  /\ raw[1].spans = <<TagFood, TagFestival>>
  /\ TagMusic \in KeywordTags(text_content(raw[1].name, raw[1].name))
  /\ computed_tags = Some(<<TagFood, TagFestival>>)
  /\ poi[1].category_tags = {TagFood, TagFestival}

\* ------------------------------------------- claims: tags on the Scrapy path

\* The tags of the situational rules that fire on a text.
SituationalTags(text) ==
  {r.tag : r \in {c \in Range(interest_rules) :
                    \E w \in Range(c.words) : contains(text, w)}}

\* The tags of a tag field of an exported item.
TagsOf(it, tag_field) ==
  IF has(it, tag_field) /\ ~is_str(it.val[tag_field])
  THEN Range(it.val[tag_field].list) ELSE {}

\* name and description of an element as the keyword rules read them.
TextOfElement(el) ==
  text_content(join_strip(el.names),
               IF join_strip(el.descriptions) = <<>> THEN join_strip(el.names)
               ELSE join_strip(el.descriptions))

\* C22: the record the Scrapy path emits for a card holds in category_tags
\* every category tag the spider computed for it, and in interest_tags these
\* and the tag of every situational rule that fired.
C22_AllComputedTagsEmitted ==
  (prog = "parse" /\ pc = "returned" /\ computed_tags # None
     /\ exported # <<>>) =>
    LET category_tags == IF computed_tags[1] = <<>> THEN {TagEvent}
                         ELSE Range(computed_tags[1])
    IN  /\ category_tags \subseteq TagsOf(exported[1], "category_tags")
        /\ (category_tags
              \cup SituationalTags(TextOfElement(element[1].element)))
             \subseteq TagsOf(exported[1], "interest_tags")

\* ------------------------------------------------ claims: field defaults

\* The field is set and holds the same value in both items.
SameValue(before, after, k) ==
  has(before, k) /\ has(after, k) /\ after.val[k] = before.val[k]

\* The fields whose populated value normalization has to keep, with the
\* empty value of each.
KeptFields ==
  << <<"id", "">>, <<"halal", "">>,
     <<"name", <<>> >>, <<"short_description", <<>> >>,
     <<"source_url", <<>> >>, <<"neighborhood", <<>> >>,
     <<"price_range", None>>, <<"price_range", Some(0)>>,
     <<"best_time_of_day", None>>, <<"best_time_of_day", Some("")>>,
     <<"typical_duration_minutes", 0>> >>

\* A field is populated when it is set and holds none of its empty values.
Populated(it, k) ==
  /\ has(it, k)
  /\ \A i \in DOMAIN KeptFields :
       KeptFields[i][1] = k => it.val[k] # KeptFields[i][2]

\* C23: POINormalizationPipeline.process_item gives a missing neighborhood
\* 'Tokyo', a missing halal 'unknown', a missing price_range and a missing
\* best_time_of_day null, missing coordinates {null, null} and a missing
\* typical_duration_minutes 180 or 90; a populated value of one of these
\* fields, of id, name, short_description or source_url stays as it was.
C23_DefaultsOnlyWhereMissing ==
  (prog = "normalize" /\ pc = "returned") =>
    LET before == item[1]
        after == normalized[1]
    IN  /\ ~has(before, "neighborhood") =>
             get(after, "neighborhood", <<>>) = TextTokyo
        /\ ~has(before, "halal") => get(after, "halal", "") = "unknown"
        /\ ~has(before, "price_range") =>
             has(after, "price_range") /\ after.val["price_range"] = None
        /\ ~has(before, "best_time_of_day") =>
             /\ has(after, "best_time_of_day")
             /\ after.val["best_time_of_day"] = None
        /\ ~has(before, "coordinates") =>
             has(after, "coordinates")
               /\ after.val["coordinates"] = [lat |-> None, lon |-> None]
        /\ ~has(before, "typical_duration_minutes") =>
             get(after, "typical_duration_minutes", 0) \in {180, 90}
        /\ \A k \in {KeptFields[i][1] : i \in DOMAIN KeptFields}
                      \cup {"coordinates"} :
             Populated(before, k) => SameValue(before, after, k)

\* An item with a populated price_range, halal and duration and without
\* neighborhood, coordinates and best_time_of_day was normalized.
C23_Witness ==
  /\ prog = "normalize"
  /\ pc = "returned"
  /\ Populated(item[1], "price_range")
  /\ Populated(item[1], "halal")
  /\ Populated(item[1], "typical_duration_minutes")
  /\ Populated(item[1], "short_description")
  /\ ~has(item[1], "neighborhood")
  /\ ~has(item[1], "coordinates")
  /\ ~has(item[1], "best_time_of_day")
  /\ normalized[1].val["neighborhood"] = TextTokyo
  /\ normalized[1].val["price_range"] = Some(2)

\* ------------------------------------------------ claims: filter, repeated

\* all_events is the output of the filter loop: no event was appended to it
\* from an additional page.
FilterOutput ==
  prog = "scrape_all_events" /\ pc \in {"start_urls", "find_pagination"}

\* C24: the deduplication and quality filter of scrape_all_events, run from
\* an empty all_events and an empty seen_urls over a batch that is its own
\* output, returns that batch: the same records in the same order.
C24_FilterIdempotent ==
  FilterOutput => filter_loop(all_events, <<>>, {}).all_events = all_events

\* The filter kept two events and dropped the one it took last; filtering
\* its output again keeps both.
C24_Witness ==
  /\ FilterOutput
  /\ pc = "find_pagination"
  /\ Len(all_events) = 2
  /\ event # None
  /\ \A i \in DOMAIN all_events : all_events[i] # event[1]
  /\ Len(filter_loop(all_events, <<>>, {}).all_events) = 2

\* ------------------------------------------- claims: the short description

\* The 1-based place of the last period among the first 200 characters of a
\* text, 0 without one.
LastPeriodPlace(d) ==
  LET places == {i \in 1..Min(200, Len(d)) : d[i] = "."}
  IN  IF places = {} THEN 0
      ELSE CHOOSE i \in places : \A j \in places : j <= i

\* The description as claimed before the date: unchanged up to 200
\* characters; else the first characters up to the last period of the first
\* 200 when that period has an index (counted from 0) above 100, else the
\* first 200 characters and the ellipsis.
CutDescription(d) ==
  IF Len(d) <= 200 THEN d
  ELSE IF LastPeriodPlace(d) - 1 > 100 THEN SubSeq(d, 1, LastPeriodPlace(d))
  ELSE SubSeq(d, 1, 200) \o <<".", ".", ".">>

\* The date is appended when it is non-empty and not in the text.
WithDate(d, date) ==
  IF date # <<>> /\ ~contains(d, date)
  THEN (IF d = <<>> THEN date ELSE d \o <<" ">> \o date)
  ELSE d

\* The description parse_event_card hands to create_short_description.
DescriptionOfCard(c) ==
  IF c.description = NoneText THEN strip(c.name) ELSE strip(c.description)

\* C25: create_short_description leaves a description of at most 200
\* characters unchanged, cuts a longer one after the last period of its first
\* 200 characters when that period lies after position 100 and otherwise to
\* its first 200 characters followed by the ellipsis, and then appends the
\* event date if and only if the date is non-empty and not a substring of the
\* result.
C25_ShortDescriptionCutAndDated ==
  (prog = "parse_event_card" /\ pc = "returned" /\ poi # None) =>
    poi[1].short_description =
      WithDate(CutDescription(DescriptionOfCard(raw[1])),
               strip(raw[1].event_date))

\* A description of 250 characters with periods at 110, 150 and 210 was cut
\* after the period at 150 and got the date.
C25_Witness ==
  /\ prog = "parse_event_card"
  /\ pc = "returned"
  /\ raw[1].description = DescPeriods
  /\ raw[1].event_date = DateApril
  /\ poi[1].short_description = SubSeq(DescPeriods, 1, 151) \o <<" ">> \o DateApril

\* ------------------------------------ claims: the constructed description

\* The texts that are a text limited to n characters: the text itself when
\* it is short enough, else one of its beginnings, with or without the
\* ellipsis, of at most n characters.
Limited(text, n) ==
  IF Len(text) <= n THEN {text}
  ELSE {prefix(text, k) : k \in 0..n}
       \cup {prefix(text, k) \o Ellipsis : k \in 0..(n - 3)}

\* The parts of the constructed description in their order, for an awards
\* part and a remarks part.
ConstructedParts(awards, remarks, private_rooms, categories) ==
  (IF awards # <<>> THEN <<TextAwards \o awards>> ELSE <<>>)
  \o (IF remarks # <<>> THEN <<TextRemarks \o remarks>> ELSE <<>>)
  \o (IF contains(lower(private_rooms), TextAvailable)
      THEN <<TextPrivateRooms>> ELSE <<>>)
  \o (IF categories # <<>>
      THEN <<TextSpecializes \o categories \o <<".">> >> ELSE <<>>)

\* The title and the body of the promotional comment of a page, cleaned.
CommentTexts(detail) ==
  IF detail.pr_comment = None THEN <<>>
  ELSE SelectSeq(<<clean_text(detail.pr_comment[1].title),
                   clean_text(detail.pr_comment[1].body)>>,
                 LAMBDA t : t # <<>>)

\* C26: the description parse_detail_page generates is the promotional
\* comment when that has a title or a body text; otherwise it is built, in
\* this order and skipping absent parts, of the awards text limited to 150
\* characters, the remarks text limited to 100 characters, the private-rooms
\* sentence (when the field contains 'available') and the specialization
\* sentence.  A generated description that is not empty is the record's
\* short_description.
C26_ConstructedDescription ==
  (prog = "scrape_item" /\ pc = "returned" /\ restaurant # None
     /\ list_item[1].detail.ok) =>
    LET detail == list_item[1].detail
        awards == clean_text(detail.awards)
        remarks == clean_text(detail.remarks)
    IN  IF CommentTexts(detail) # <<>>
        THEN restaurant[1].short_description
               = join(<<" ">>, CommentTexts(detail))
        ELSE (awards # <<>> \/ remarks # <<>>
                \/ clean_text(detail.categories) # <<>>
                \/ contains(lower(detail.private_rooms), TextAvailable)) =>
             \E a \in Limited(awards, 150), r \in Limited(remarks, 100) :
               restaurant[1].short_description =
                 join(<<".", " ">>,
                      ConstructedParts(a, r, clean_text(detail.private_rooms),
                                       clean_text(detail.categories)))

\* -------------------------------------------- claims: clean_neighborhood

TextShibuya == <<"S", "h", "i", "b", "u", "y", "a">>
TextHarajuku == <<"H", "a", "r", "a", "j", "u", "k", "u">>
TextAsakusa == <<"A", "s", "a", "k", "u", "s", "a">>
TextGinza == <<"G", "i", "n", "z", "a">>
TextRoppongi == <<"R", "o", "p", "p", "o", "n", "g", "i">>
TextAkihabara == <<"A", "k", "i", "h", "a", "b", "a", "r", "a">>
TextUeno == <<"U", "e", "n", "o">>
TextTokyoStation == <<"T", "o", "k", "y", "o", " ", "S", "t", "a", "t", "i",
  "o", "n">>
TextIkebukuro == <<"I", "k", "e", "b", "u", "k", "u", "r", "o">>
TextOdaiba == <<"O", "d", "a", "i", "b", "a">>
TextTsukiji == <<"T", "s", "u", "k", "i", "j", "i">>

\* The keys of the neighborhood table in the order the claim gives; the
\* canonical name of each is the key title-cased.
NeighborhoodKeys ==
  <<lower(TextShibuya), lower(TextShinjuku), lower(TextHarajuku),
    lower(TextAsakusa), lower(TextGinza), lower(TextRoppongi),
    lower(TextAkihabara), lower(TextUeno), lower(TextTokyoStation),
    lower(TextIkebukuro), lower(TextOdaiba), lower(TextTsukiji)>>

\* The places of the keys that are substrings of the lowercased text.
KeysIn(text) ==
  {i \in DOMAIN NeighborhoodKeys : contains(lower(text), NeighborhoodKeys[i])}

\* The canonical name of the key declared first among those in the text, the
\* trimmed text title-cased without one.
FirstDeclared(text) ==
  IF KeysIn(text) # {}
  THEN title(NeighborhoodKeys[CHOOSE i \in KeysIn(text) :
                                \A j \in KeysIn(text) : i <= j])
  ELSE title(strip(text))

\* C27 as stated: clean_neighborhood returns the canonical name of the
\* first key, in the table's order, that is a substring of the lowercased
\* input, and with no matching key the trimmed input title-cased.
C27_FirstDeclaredKeyWins ==
  (prog = "clean_neighborhood" /\ pc = "returned") =>
    neighborhood_result = Some(FirstDeclared(location_arg))

\* C27, amended: for a non-empty input clean_neighborhood returns the
\* canonical name of the first key, in the table's order, that is a
\* substring of the lowercased input, whatever the places of the keys in the
\* text, and with no matching key the trimmed input title-cased; for the
\* empty input it returns 'Tokyo'.
C27_FirstDeclaredKeyWinsNonEmpty ==
  (prog = "clean_neighborhood" /\ pc = "returned") =>
    neighborhood_result =
      Some(IF location_arg = <<>> THEN TextTokyo
           ELSE FirstDeclared(location_arg))

\* A text naming Tsukiji before Shibuya was resolved to Shibuya.
C27_Witness ==
  /\ prog = "clean_neighborhood"
  /\ pc = "returned"
  /\ Cardinality(KeysIn(location_arg)) = 2
  /\ contains(lower(location_arg), lower(TextTsukiji \o <<",", " ">> \o TextShibuya))
  /\ neighborhood_result = Some(TextShibuya)

\* ------------------------------------------ claims: detail-page enrichment

\* The fields enrichment may overwrite.
EnrichedFields == {"price_range", "short_description", "coordinates"}

\* A coordinate pair that was found: latitude and longitude are both set.
FoundPair(coordinates) ==
  coordinates.lat # None /\ coordinates.lon # None

\* The record of a Tabelog card before and after the update with its detail
\* page.
TabelogEnrichment(card, updated) ==
  /\ \A f \in DOMAIN card \ EnrichedFields : updated[f] = card[f]
  /\ DOMAIN updated = DOMAIN card
  /\ updated.price_range # card.price_range => updated.price_range # None
  /\ updated.short_description # card.short_description =>
       updated.short_description # <<>>
  /\ updated.coordinates # card.coordinates => FoundPair(updated.coordinates)

\* The item of a spider card before and after parse_event_detail, whose
\* response has the paragraphs desc_parts.
SpiderEnrichment(card, updated, desc_parts) ==
  /\ \A f \in DOMAIN card.val \ EnrichedFields :
       has(updated, f) /\ updated.val[f] = card.val[f]
  /\ DOMAIN updated.val \subseteq DOMAIN card.val \cup {"coordinates"}
  /\ has(card, "short_description") => has(updated, "short_description")
  /\ has(card, "price_range") =>
       has(updated, "price_range")
         /\ updated.val["price_range"] = card.val["price_range"]
  /\ has(updated, "coordinates") => FoundPair(updated.val["coordinates"])
  /\ get(updated, "short_description", <<>>)
         # get(card, "short_description", <<>>) =>
       /\ Len(join_strip(desc_parts))
            > Len(get(card, "short_description", <<>>))
       /\ updated.val["short_description"] # <<>>

\* C28: the enrichment with the detail page overwrites, in scrape_category,
\* price_range only by a tier that is not null, short_description only by a
\* text that is not empty and coordinates only by a pair that was found; in
\* parse_event_detail coordinates only by a pair that was found and
\* short_description only when the detail text is strictly longer than the
\* card's; every other field of the record stays as the card gave it.
C28_EnrichmentOnlyAdds ==
  /\ (prog = "scrape_item" /\ pc = "returned" /\ restaurant # None) =>
       TabelogEnrichment(
         parse_restaurant_card(list_item[1].item, list_item[1].category)[1],
         restaurant[1])
  /\ (prog = "parse" /\ pc = "returned" /\ item # None
        /\ element[1].detail # None) =>
       SpiderEnrichment(spider_parse_event_card(element[1].element)[1],
                        item[1], element[1].detail[1].desc_parts)

\* A restaurant whose detail page has no price kept the tier of its card,
\* and got the coordinates and the description of the page.
C28_Witness ==
  /\ prog = "scrape_item"
  /\ pc = "returned"
  /\ restaurant # None
  /\ list_item[1].detail.ok
  /\ list_item[1].detail.price_text = <<>>
  /\ list_item[1].item.price_text = P999
  /\ restaurant[1].price_range = Some(1)
  /\ FoundPair(restaurant[1].coordinates)
  /\ restaurant[1].short_description
       # parse_restaurant_card(list_item[1].item,
                               list_item[1].category)[1].short_description

\* ------------------------------------------- claims: scrape_category's items

\* scrape_category is running for a category.
InCategory == prog = "run" /\ pc # "done"

LoopStep ==
  (prog = "run" /\ pc # "done") =>
    /\ cat_idx' = cat_idx =>
         /\ page' \in {page, page + 1}
         /\ (pc # "fetch_list" /\ pc' = "fetch_list") = (page' = page + 1)
    /\ (pc = "fetch_list" /\ Len(items) >= MaxPerCategory) =>
         cat_idx' = cat_idx + 1 /\ UNCHANGED fetchVars
    /\ Len(items) >= MaxPerCategory => items' \in {items, <<>>}

\* scrape_category returns for the k-th category.
CategoryReturns(k) ==
  (prog = "run" /\ pc # "done" /\ cat_idx = k) ~> (cat_idx = k + 1)

\* C30: scrape_category terminates on a finite listing (a page fails, has
\* no list item or no enabled next link): every iteration of the while loop
\* leaves it or increases page by one, the loop is left as soon as items
\* holds limit records, and a page whose cards are all skipped does not keep
\* page from advancing.
C30_ScrapeCategoryTerminates ==
  /\ [][LoopStep]_vars
  /\ \A k \in 0..(MaxCategories - 1) : CategoryReturns(k)

\* After a page whose last card was skipped as a duplicate the loop went on
\* to the next page.
C30_Witness ==
  /\ prog = "run"
  /\ pc = "fetch_list"
  /\ page = MaxPage
  /\ card_outcome = "skipped"
  /\ Len(items) = 1

\* ------------------------------------------------------------ the system

Init ==
  \/ InitPrice \/ InitRating \/ InitPlace \/ InitCard \/ InitGoTokyo
  \/ InitItem \/ InitRun
  \/ InitNormalize \/ InitOrder \/ InitPipeline \/ InitParse

Next ==
  \/ ParsePrice
  \/ ParseRating
  \/ CleanNeighborhood
  \/ ParseEventCard
  \/ ScrapeEventsPage
  \/ FilterEvent
  \/ NextStartUrl
  \/ FindPagination
  \/ ExtendEvent
  \/ NextAdditionalUrl
  \/ ScrapeItem
  \/ FetchListPage
  \/ NextListItem
  \/ NextPageCheck
  \/ Normalize
  \/ OrderFields
  \/ ProcessItem
  \/ ParseElement

Spec == Init /\ [][Next]_vars

\* TabelogScraper.run on its own, when every step it can take is taken in
\* the end: a request returns or raises (the session's requests have a
\* timeout), and the loop over the items of a parsed page comes to its end.
RunNext ==
  \/ FetchListPage
  \/ NextListItem
  \/ NextPageCheck

\* A card of the page is waiting for its turn in the for loop.
ItemPending == prog = "run" /\ pc \in {"first_item", "next_item"}

\* WF_vars(NextListItem) written out.  ENABLED <<NextListItem>>_vars is
\* ItemPending: at "first_item" every card moves pc on, and at "next_item"
\* RunListItems holds a card that parses and one that does not, so some card
\* changes card_outcome.
ItemFairness == []<>~ItemPending \/ []<><<NextListItem>>_vars

\* run is sequential code: a request returns, the for loop takes its next
\* card, and the end of a page is followed by the next-link test.
FairSpec ==
  /\ InitRun
  /\ [][RunNext]_vars
  /\ WF_vars(FetchListPage)
  /\ WF_vars(NextPageCheck)
  /\ ItemFairness

====
